---- MODULE Spec2Model ----
(***************************************************************************)
(* Model of the markdown-to-PDF engine of src/pdf_generator.py:            *)
(* parse_markdown (block parser), MarkdownPDF._parse_inline (inline        *)
(* formatter), the MarkdownPDF renderers and generate_pdf; and of the      *)
(* request handling of src/bot_multi.py that calls it: the daily limit,    *)
(* ask_claude_api, the cancel button and the delivery of the report.       *)
(*                                                                         *)
(* A string is a sequence of one-character strings; Python's 0-based       *)
(* indices are kept for the parser's line index i and for regex match      *)
(* offsets, and shifted by one when a sequence is indexed.                 *)
(***************************************************************************)
EXTENDS Integers, Sequences, FiniteSets, TLC

VARIABLES
    text,     \* the input string of the function under way
    i,        \* parse_markdown: the line index
    blocks,   \* parse_markdown: the blocks appended so far
    parts,    \* _parse_inline: the spans returned
    pc,       \* where the call is
    title,    \* generate_pdf: the title argument
    files,    \* the font files that exist on the host
    now,      \* the host clock, in seconds
    pdf,      \* generate_pdf: the MarkdownPDF object of the call under way
    cursor,   \* generate_pdf: the number of blocks rendered
    calls,    \* the number of generate_pdf calls started
    last,     \* the arguments, header date and result of the call before
    COLORS,   \* the module-level colour table
    FONT_PATHS, \* the module-level font path table
    today,    \* bot_multi: date.today() on the host, in days
    usage_storage,   \* bot_multi: user id -> [date, count]
    active_requests, \* bot_multi: status message id -> [cancelled]
    req,      \* bot_multi: the handle_query calls, by status message id
    answered  \* bot_multi: user id -> reports the user has received today

pvars == <<text, i, blocks, parts, pc>>

gvars == <<title, files, now, pdf, cursor, calls, last, COLORS, FONT_PATHS>>

bvars == <<today, usage_storage, active_requests, req, answered>>

vars == <<text, i, blocks, parts, pc, title, files, now, pdf, cursor, calls, last,
          COLORS, FONT_PATHS, today, usage_storage, active_requests, req, answered>>

NL == "\n"

\* Characters outside ASCII are named: U+2022 (the bullet glyph) and a Cyrillic
\* letter standing for every character outside Latin-1.
BulletGlyph == "U+2022"

Cyrillic == "U+0436"

(***************************************************************************)
(* String helpers: str.strip, str.startswith, `in`, str.split, str.join.   *)
(***************************************************************************)
\* the slip of trimming blanks and line breaks only
IsSpaceNoTab(c) == c \in {" ", NL}

IsSpace(c) == c \in {" ", "\t", NL}

RECURSIVE LStrip(_)
LStrip(s) == IF s # <<>> /\ IsSpace(Head(s)) THEN LStrip(Tail(s)) ELSE s

RECURSIVE RStrip(_)
RStrip(s) ==
    IF s # <<>> /\ IsSpace(s[Len(s)]) THEN RStrip(SubSeq(s, 1, Len(s) - 1)) ELSE s

\* the slip of trimming the left end only
LStripOnly(s) == LStrip(s)

Strip(s) == RStrip(LStrip(s))

StartsWith(s, p) == Len(s) >= Len(p) /\ SubSeq(s, 1, Len(p)) = p

Contains(s, c) == \E k \in 1..Len(s) : s[k] = c

\* s[n:] of Python
From(s, n) == SubSeq(s, n + 1, Len(s))

\* s.split(sep) for a one-character separator: always at least one piece
RECURSIVE SplitAcc(_, _, _)
SplitAcc(s, sep, cur) ==
    IF s = <<>> THEN <<cur>>
    ELSE IF Head(s) = sep THEN <<cur>> \o SplitAcc(Tail(s), sep, <<>>)
    ELSE SplitAcc(Tail(s), sep, Append(cur, Head(s)))

Split(s, sep) == SplitAcc(s, sep, <<>>)

\* sep.join(pieces)
RECURSIVE Join(_, _)
Join(pieces, sep) ==
    IF pieces = <<>> THEN <<>>
    ELSE IF Len(pieces) = 1 THEN pieces[1]
    ELSE pieces[1] \o sep \o Join(Tail(pieces), sep)

\* [f(x) for x in s]
StripAll(s) == [k \in 1..Len(s) |-> Strip(s[k])]

(***************************************************************************)
(* Blocks, as the dicts parse_markdown appends.                            *)
(***************************************************************************)
Block(type, content) ==
    [type |-> type, number |-> <<>>, content |-> content, rows |-> <<>>]

NumberedBlock(number, content) ==
    [type |-> "numbered", number |-> number, content |-> content, rows |-> <<>>]

\* a table's content is its list of rows, each a list of cells
TableBlock(rows) == [type |-> "table", number |-> <<>>, content |-> <<>>, rows |-> rows]

(***************************************************************************)
(* The line tests of parse_markdown, each on a stripped line.              *)
(***************************************************************************)
IsSeparatorLine(s) == s \in {<<"-", "-", "-">>, <<"*", "*", "*">>, <<"_", "_", "_">>}

\* the slip of testing the marker without the blank after it
IsBulletLineLoose(s) ==
    \/ StartsWith(s, <<BulletGlyph>>)
    \/ StartsWith(s, <<"-">>)
    \/ StartsWith(s, <<"*">>)

IsBulletLine(s) ==
    \/ StartsWith(s, <<BulletGlyph, " ">>)
    \/ StartsWith(s, <<"-", " ">>)
    \/ StartsWith(s, <<"*", " ">>)

IsDigit(c) == c \in {"0", "1", "2", "3", "4", "5", "6", "7", "8", "9"}

\* the number of leading characters of s that satisfy the class test
RECURSIVE DigitRun(_)
DigitRun(s) == IF s # <<>> /\ IsDigit(Head(s)) THEN 1 + DigitRun(Tail(s)) ELSE 0

RECURSIVE SpaceRun(_)
SpaceRun(s) == IF s # <<>> /\ IsSpace(Head(s)) THEN 1 + SpaceRun(Tail(s)) ELSE 0

\* re.match(r'^\d+\.\s+', s): digits, a dot, at least one whitespace
NumPrefixMatch(s) ==
    LET d == DigitRun(s)
    IN  /\ d >= 1
        /\ Len(s) >= d + 2
        /\ s[d + 1] = "."
        /\ IsSpace(s[d + 2])

\* re.match(r'^(\d+)\.\s+(.+)$', s): the same, and at least one more character
NumMatch(s) ==
    /\ NumPrefixMatch(s)
    /\ LET d == DigitRun(s)
       IN  \* \s+ may give back whitespace to (.+): a match needs one character
           \* after the first whitespace character
           Len(s) >= d + 3

NumGroup1(s) == SubSeq(s, 1, DigitRun(s))

\* group 2: \s+ is greedy and gives back only what (.+) needs
NumGroup2(s) ==
    LET d == DigitRun(s)
        rest == From(s, d + 1)
        w == SpaceRun(rest)
    IN  IF w < Len(rest) THEN From(rest, w) ELSE From(rest, w - 1)

\* re.match(r'\|[-:\s|]+\|', row): anchored at the start only
InSepClass(c) == c \in {"-", ":", "|"} \/ IsSpace(c)

TableSepMatch(row) ==
    /\ row # <<>>
    /\ row[1] = "|"
    /\ \E j \in 3..Len(row) :
          /\ row[j] = "|"
          /\ \A k \in 2..(j - 1) : InSepClass(row[k])

\* [c.strip() for c in row_line.split('|')[1:-1]]
RowCells(row) ==
    LET pieces == Split(row, "|")
    IN  StripAll(SubSeq(pieces, 2, Len(pieces) - 1))

\* the inner loop of the table branch that keeps a row without cells
RECURSIVE TableCaptureKeepAll(_, _, _)
TableCaptureKeepAll(lines, k, rows) ==
    IF k < Len(lines) /\ Contains(lines[k + 1], "|")
    THEN LET row_line == Strip(lines[k + 1])
         IN  IF TableSepMatch(row_line)
             THEN TableCaptureKeepAll(lines, k + 1, rows)
             ELSE TableCaptureKeepAll(lines, k + 1, Append(rows, RowCells(row_line)))
    ELSE [i |-> k, rows |-> rows]

\* the inner loop of the table branch that stops before the line that opened it
TableCaptureStuck(lines, k, rows) == [i |-> k, rows |-> rows]

(***************************************************************************)
(* The table branch's inner loop (lines 297-308): from line index k, the   *)
(* rows captured and the index reached.                                    *)
(***************************************************************************)
RECURSIVE TableCapture(_, _, _)
TableCapture(lines, k, rows) ==
    IF k < Len(lines) /\ Contains(lines[k + 1], "|")
    THEN LET row_line == Strip(lines[k + 1])
         IN  IF TableSepMatch(row_line)
             THEN TableCapture(lines, k + 1, rows)
             ELSE LET cells == RowCells(row_line)
                  IN  TableCapture(lines, k + 1,
                                   IF cells # <<>> THEN Append(rows, cells) ELSE rows)
    ELSE [i |-> k, rows |-> rows]

(***************************************************************************)
(* Paragraph accumulation (lines 333-345).                                 *)
(***************************************************************************)
ParagraphBreak(next_line) ==
    \/ next_line = <<>>
    \/ StartsWith(next_line, <<"#">>)
    \/ StartsWith(next_line, <<"|">>)
    \/ IsSeparatorLine(next_line)
    \/ IsBulletLine(next_line)
    \/ NumPrefixMatch(next_line)

RECURSIVE ParagraphCapture(_, _, _)
ParagraphCapture(lines, k, paragraph_lines) ==
    IF k < Len(lines) /\ ~ParagraphBreak(Strip(lines[k + 1]))
    THEN ParagraphCapture(lines, k + 1, Append(paragraph_lines, Strip(lines[k + 1])))
    ELSE [i |-> k, paragraph_lines |-> paragraph_lines]

\* the slip of joining the lines as they were, with the line break
JoinParagraphNewline(paragraph_lines) == Join(paragraph_lines, <<NL>>)

JoinParagraph(paragraph_lines) == Join(paragraph_lines, <<" ">>)

(***************************************************************************)
(* One iteration of the main loop of parse_markdown (lines 264-347), from  *)
(* line index k with the blocks bl: the new index and blocks.              *)
(***************************************************************************)
LoopBody(lines, k, bl) ==
    LET stripped == Strip(lines[k + 1])
    IN  IF stripped = <<>> THEN [i |-> k + 1, blocks |-> bl]
        ELSE IF StartsWith(stripped, <<"#", "#", " ">>)
        THEN [i |-> k + 1, blocks |-> Append(bl, Block("h1", From(stripped, 3)))]
        ELSE IF StartsWith(stripped, <<"#", "#", "#", " ">>)
        THEN [i |-> k + 1, blocks |-> Append(bl, Block("h2", From(stripped, 4)))]
        ELSE IF StartsWith(stripped, <<"#", " ">>)
        THEN [i |-> k + 1, blocks |-> Append(bl, Block("h1", From(stripped, 2)))]
        ELSE IF IsSeparatorLine(stripped)
        THEN [i |-> k + 1, blocks |-> Append(bl, Block("separator", <<>>))]
        ELSE IF Contains(stripped, "|") /\ StartsWith(stripped, <<"|">>)
        THEN LET t == TableCapture(lines, k, <<>>)
             IN  [i |-> t.i,
                  blocks |-> IF t.rows # <<>>
                             THEN Append(bl, TableBlock(t.rows)) ELSE bl]
        ELSE IF IsBulletLine(stripped)
        THEN [i |-> k + 1, blocks |-> Append(bl, Block("bullet", From(stripped, 2)))]
        ELSE IF NumMatch(stripped)
        THEN [i |-> k + 1,
              blocks |-> Append(bl, NumberedBlock(NumGroup1(stripped), NumGroup2(stripped)))]
        ELSE LET p == ParagraphCapture(lines, k + 1, <<stripped>>)
             IN  [i |-> p.i,
                  blocks |-> Append(bl, Block("paragraph", JoinParagraph(p.paragraph_lines)))]

\* lines = text.split('\n')
SplitLines(t) == Split(t, NL)

(***************************************************************************)
(* parse_markdown as a process: pc = "parse" while the loop runs.          *)
(***************************************************************************)
ParseStep ==
    /\ pc = "parse"
    /\ i < Len(SplitLines(text))
    /\ LET r == LoopBody(SplitLines(text), i, blocks)
       IN  /\ i' = r.i
           /\ blocks' = r.blocks
    /\ UNCHANGED <<text, parts, pc>>
    /\ UNCHANGED gvars
    /\ UNCHANGED bvars

ParseReturn ==
    /\ pc = "parse"
    /\ ~(i < Len(SplitLines(text)))
    /\ pc' = "done"
    /\ UNCHANGED <<text, i, blocks, parts>>
    /\ UNCHANGED gvars
    /\ UNCHANGED bvars

NextParse == ParseStep \/ ParseReturn

\* the module-level tables as the import leaves them (lines 13-43); a font file
\* is named by its style list and its place in the list, and the two Arial
\* Unicode files are the same in the three lists
ImportedFontPaths ==
    [regular |-> <<"dejavu/DejaVuSans.ttf", "dejavu-sans-fonts/DejaVuSans.ttf",
                   "Supplemental/Arial Unicode.ttf", "Library/Arial Unicode.ttf">>,
     bold |-> <<"dejavu/DejaVuSans-Bold.ttf", "dejavu-sans-fonts/DejaVuSans-Bold.ttf",
                "Supplemental/Arial Unicode.ttf", "Library/Arial Unicode.ttf">>,
     italic |-> <<"dejavu/DejaVuSans-Oblique.ttf",
                  "dejavu-sans-fonts/DejaVuSans-Oblique.ttf",
                  "Supplemental/Arial Unicode.ttf", "Library/Arial Unicode.ttf">>]

ImportedColors ==
    [header1 |-> <<41, 98, 255>>,
     header2 |-> <<41, 98, 255>>,
     text |-> <<33, 33, 33>>,
     gray |-> <<128, 128, 128>>,
     link |-> <<0, 102, 204>>,
     table_header |-> <<240, 240, 240>>,
     table_border |-> <<200, 200, 200>>]

\* no MarkdownPDF object yet
NoPdf ==
    [made |-> FALSE, font_name |-> "", registered |-> {}, style |-> "", size |-> 0,
     text_color |-> <<0, 0, 0>>, fill_color |-> <<0, 0, 0>>,
     draw_color |-> <<0, 0, 0>>, x |-> 0, y |-> 0, page |-> 0, lasth |-> 0,
     b_margin |-> 0, ops |-> <<>>, created |-> 0, raised |-> FALSE]

\* no call before this one
NoCall ==
    [made |-> FALSE, text |-> <<>>, title |-> <<>>, date |-> 0, files |-> {},
     returned |-> FALSE, ops |-> <<>>, created |-> 0]

\* bot_multi at import: no usage recorded, no request registered (lines 42, 102)
BotIdle ==
    /\ today = 0
    /\ usage_storage = <<>>
    /\ active_requests = <<>>
    /\ req = <<>>
    /\ answered = <<>>

GenIdle ==
    /\ BotIdle
    /\ title = <<>>
    /\ files = {}
    /\ now = 0
    /\ pdf = NoPdf
    /\ cursor = 0
    /\ calls = 0
    /\ last = NoCall
    /\ COLORS = ImportedColors
    /\ FONT_PATHS = ImportedFontPaths

InitParse(texts) ==
    /\ text \in texts
    /\ i = 0
    /\ blocks = <<>>
    /\ parts = <<>>
    /\ pc = "parse"
    /\ GenIdle

\* all strings over an alphabet up to a length
RECURSIVE StringsUpTo(_, _)
StringsUpTo(alphabet, n) ==
    IF n = 0 THEN {<<>>}
    ELSE LET shorter == StringsUpTo(alphabet, n - 1)
         IN  shorter \cup {Append(s, c) : s \in shorter, c \in alphabet}

(***************************************************************************)
(* SpecTable: parse_markdown on the well-formed pipe tables of up to       *)
(* MaxRows rows and MaxCols columns, every row "|c1|...|cM|" one of           *)
(* RowChoices(M).                                                          *)
(***************************************************************************)
MaxRows == 3

MaxCols == 2

\* what one cell of a row may hold instead of the plain " a"
SpecialCells == {<<>>, <<"-">>, <<" ">>}

\* the rows of m cells: all plain, all dashes (an alignment row), or plain with
\* one special cell
RowChoices(m) ==
    {[c \in 1..m |-> <<" ", "a">>], [c \in 1..m |-> <<"-">>]}
        \cup {[c \in 1..m |-> IF c = p THEN x ELSE <<" ", "a">>] :
                  p \in 1..m, x \in SpecialCells}

RowLine(cells) == <<"|">> \o Join(cells, <<"|">>) \o <<"|">>

TableTexts(maxRows, maxCols) ==
    UNION {UNION {{Join([r \in 1..n |-> RowLine(t[r])], <<NL>>) :
                      t \in [1..n -> RowChoices(m)]} :
                  n \in 1..maxRows} :
           m \in 1..maxCols}

InitTable == InitParse(TableTexts(MaxRows, MaxCols))

SpecTable == InitTable /\ [][NextParse]_vars

\* the inner cells of a row line as written, untrimmed
InnerCells(line) ==
    LET pieces == Split(line, "|") IN SubSeq(pieces, 2, Len(pieces) - 1)

AlignChars(cell) == \A k \in 1..Len(cell) : cell[k] \in {"-", ":", " "}

\* an alignment-separator row: every cell is dashes, colons and spaces, with a dash
IsAlignRow(line) ==
    \A c \in 1..Len(InnerCells(line)) :
        AlignChars(InnerCells(line)[c]) /\ Contains(InnerCells(line)[c], "-")

\* a data row: some cell holds a character that no alignment row holds
IsDataRow(line) ==
    \E c \in 1..Len(InnerCells(line)) : ~AlignChars(InnerCells(line)[c])

RECURSIVE SelectRows(_)
SelectRows(lines) ==
    IF lines = <<>> THEN <<>>
    ELSE IF IsDataRow(Head(lines))
    THEN <<StripAll(InnerCells(Head(lines)))>> \o SelectRows(Tail(lines))
    ELSE SelectRows(Tail(lines))

\* a table of the claim: data rows and at most one alignment row, in any place
ClaimTable(t) ==
    LET lines == SplitLines(t)
    IN  /\ \A r \in 1..Len(lines) : IsDataRow(lines[r]) \/ IsAlignRow(lines[r])
        /\ Cardinality({r \in 1..Len(lines) : IsAlignRow(lines[r])}) <= 1
        /\ \E r \in 1..Len(lines) : IsDataRow(lines[r])

\* C1: on a well-formed pipe table with at most one alignment-separator row,
\* parse_markdown returns exactly one table block whose rows are the data rows
\* (N-1 of them, or N without a separator row), each with its M trimmed cells,
\* in source order, whatever the cells hold.
C1_TableRowsKept ==
    (pc = "done" /\ ClaimTable(text))
        => blocks = <<TableBlock(SelectRows(SplitLines(text)))>>

(***************************************************************************)
(* SpecPlain: parse_markdown on every text of up to MaxPlainLen characters *)
(* over PlainAlphabet.                                                     *)
(***************************************************************************)
MaxPlainLen == 5

PlainAlphabet == {"a", " ", NL, "#"}

InitPlain == InitParse(StringsUpTo(PlainAlphabet, MaxPlainLen))

SpecPlain == InitPlain /\ [][NextParse]_vars

IsHeadingLine(s) ==
    \/ StartsWith(s, <<"#", " ">>)
    \/ StartsWith(s, <<"#", "#", " ">>)
    \/ StartsWith(s, <<"#", "#", "#", " ">>)

\* a line that one of the block rules other than the paragraph rule takes
IsMarkdownLine(s) ==
    \/ IsHeadingLine(s)
    \/ IsSeparatorLine(s)
    \/ StartsWith(s, <<"|">>)
    \/ IsBulletLine(s)
    \/ NumPrefixMatch(s)

NoMarkdown(t) ==
    /\ Strip(t) # <<>>
    /\ \A k \in 1..Len(SplitLines(t)) : ~IsMarkdownLine(Strip(SplitLines(t)[k]))

\* the lines of the trimmed text: none of them blank, none after the first
\* starting with `#`
SingleRun(t) ==
    LET ls == SplitLines(Strip(t))
    IN  \A k \in 1..Len(ls) :
            /\ Strip(ls[k]) # <<>>
            /\ k > 1 => ~StartsWith(Strip(ls[k]), <<"#">>)

RECURSIVE NonBlankLines(_)
NonBlankLines(lines) ==
    IF lines = <<>> THEN <<>>
    ELSE IF Strip(Head(lines)) = <<>> THEN NonBlankLines(Tail(lines))
    ELSE <<Strip(Head(lines))>> \o NonBlankLines(Tail(lines))

CharAt(t, p) == IF p >= 0 /\ p < Len(t) THEN t[p + 1] ELSE ""

\* the least offset q >= p with t[q] = c, or Len(t) when there is none
RECURSIVE FirstAt(_, _, _)
FirstAt(t, p, c) ==
    IF p >= Len(t) THEN Len(t)
    ELSE IF t[p + 1] = c THEN p
    ELSE FirstAt(t, p + 1, c)

\* \[([^\]]+)\]\(([^)]+)\)
LinkEnd(t, p) ==
    LET q == FirstAt(t, p + 1, "]")
        r == FirstAt(t, q + 2, ")")
    IN  IF /\ CharAt(t, p) = "["
           /\ q >= p + 2
           /\ CharAt(t, q) = "]"
           /\ CharAt(t, q + 1) = "("
           /\ r >= q + 3
           /\ CharAt(t, r) = ")"
        THEN r + 1 ELSE -1

\* \*\*([^*]+)\*\*  and  __([^_]+)__
BoldEnd(t, p, c) ==
    LET q == FirstAt(t, p + 2, c)
    IN  IF /\ CharAt(t, p) = c
           /\ CharAt(t, p + 1) = c
           /\ q >= p + 3
           /\ CharAt(t, q) = c
           /\ CharAt(t, q + 1) = c
        THEN q + 2 ELSE -1

\* the slip of letting an italic marker without a closer run to the end of the
\* text
ItalicEndUnclosed(t, p, c) ==
    LET q == FirstAt(t, p + 1, c)
    IN  IF CharAt(t, p - 1) # c /\ CharAt(t, p) = c /\ q >= p + 2
        THEN IF q = Len(t) THEN q
             ELSE IF CharAt(t, q + 1) # c THEN q + 1 ELSE -1
        ELSE -1

\* (?<!\*)\*([^*]+)\*(?!\*)  and  (?<!_)_([^_]+)_(?!_)
ItalicEnd(t, p, c) ==
    LET q == FirstAt(t, p + 1, c)
    IN  IF /\ CharAt(t, p - 1) # c
           /\ CharAt(t, p) = c
           /\ q >= p + 2
           /\ CharAt(t, q) = c
           /\ CharAt(t, q + 1) # c
        THEN q + 1 ELSE -1

\* the combined pattern of line 214 at offset p: the first alternative that
\* matches, in the order of the list
MatchEnd(t, p) ==
    IF LinkEnd(t, p) # -1 THEN LinkEnd(t, p)
    ELSE IF BoldEnd(t, p, "*") # -1 THEN BoldEnd(t, p, "*")
    ELSE IF BoldEnd(t, p, "_") # -1 THEN BoldEnd(t, p, "_")
    ELSE IF ItalicEnd(t, p, "*") # -1 THEN ItalicEnd(t, p, "*")
    ELSE ItalicEnd(t, p, "_")

\* the alternative that matched, as the pattern list tags it
MatchAlt(t, p) ==
    IF LinkEnd(t, p) # -1 THEN "link"
    ELSE IF BoldEnd(t, p, "*") # -1 \/ BoldEnd(t, p, "_") # -1 THEN "bold"
    ELSE "italic"

\* re.finditer: the matches from offset p on, leftmost first, each search
\* resuming where the last match ended
RECURSIVE FindIter(_, _)
FindIter(t, p) ==
    IF p >= Len(t) THEN <<>>
    ELSE IF MatchEnd(t, p) # -1
    THEN <<[start |-> p, end |-> MatchEnd(t, p), alt |-> MatchAlt(t, p)]>>
             \o FindIter(t, MatchEnd(t, p))
    ELSE FindIter(t, p + 1)

Span(type, content) == [type |-> type, content |-> content, url |-> <<>>]

LinkSpan(label, url) == [type |-> "link", content |-> label, url |-> url]

\* the slip of cutting one delimiter character where the marker has two
BoldContentShort(full_match) == SubSeq(full_match, 2, Len(full_match) - 1)

\* full_match[2:-2]
BoldContent(full_match) == SubSeq(full_match, 3, Len(full_match) - 2)

\* full_match[1:-1]
ItalicContent(full_match) == SubSeq(full_match, 2, Len(full_match) - 1)

\* the slip of testing the one-character marker before the two-character one
MatchSpansItalicFirst(full_match) ==
    IF StartsWith(full_match, <<"[">>) /\ LinkEnd(full_match, 0) # -1
    THEN LET q == FirstAt(full_match, 1, "]")
         IN  <<LinkSpan(SubSeq(full_match, 2, q),
                        SubSeq(full_match, q + 3, LinkEnd(full_match, 0) - 1))>>
    ELSE IF StartsWith(full_match, <<"*">>) \/ StartsWith(full_match, <<"_">>)
    THEN <<Span("italic", ItalicContent(full_match))>>
    ELSE <<>>

\* lines 222-236: the span a match gives, chosen by how the matched text
\* begins; no span when the link pattern does not match it again
MatchSpans(full_match) ==
    IF StartsWith(full_match, <<"[">>)
       /\ \E k \in 1..(Len(full_match) - 1) :
              full_match[k] = "]" /\ full_match[k + 1] = "("
    THEN IF LinkEnd(full_match, 0) # -1
         THEN LET q == FirstAt(full_match, 1, "]")
              IN  <<LinkSpan(SubSeq(full_match, 2, q),
                             SubSeq(full_match, q + 3, LinkEnd(full_match, 0) - 1))>>
         ELSE <<>>
    ELSE IF StartsWith(full_match, <<"*", "*">>) \/ StartsWith(full_match, <<"_", "_">>)
    THEN <<Span("bold", BoldContent(full_match))>>
    ELSE IF StartsWith(full_match, <<"*">>) \/ StartsWith(full_match, <<"_">>)
    THEN <<Span("italic", ItalicContent(full_match))>>
    ELSE <<>>

\* the slip of trimming the text between two matches
PlainBetweenTrimmed(t, from, to) ==
    IF to > from THEN <<Span("text", Strip(SubSeq(t, from + 1, to)))>> ELSE <<>>

\* lines 218-219 and 241-242: the text t[from:to] as one span, when not empty
PlainBetween(t, from, to) ==
    IF to > from THEN <<Span("text", SubSeq(t, from + 1, to))>> ELSE <<>>

\* the loop of lines 216-238 over the matches ms, from offset pos
RECURSIVE InlineLoop(_, _, _, _)
InlineLoop(t, ms, pos, acc) ==
    IF ms = <<>> THEN [pos |-> pos, parts |-> acc]
    ELSE LET m == Head(ms)
             before == PlainBetween(t, pos, m.start)
         IN  InlineLoop(t, Tail(ms), m.end,
                        acc \o before \o MatchSpans(SubSeq(t, m.start + 1, m.end)))

ParseInline(t) ==
    LET r == InlineLoop(t, FindIter(t, 0), 0, <<>>)
        rest == PlainBetween(t, r.pos, Len(t))
        ps == r.parts \o rest
    IN  IF ps = <<>> THEN <<Span("text", t)>> ELSE ps

ParseInlineCall ==
    /\ pc = "inline"
    /\ parts' = ParseInline(text)
    /\ pc' = "done"
    /\ UNCHANGED <<text, i, blocks>>
    /\ UNCHANGED gvars
    /\ UNCHANGED bvars

NextInline == ParseInlineCall

(***************************************************************************)
(* SpecInline: _parse_inline on every text of up to MaxInlineLen           *)
(* characters over InlineAlphabet, on the markups of MarkupTexts alone,    *)
(* in pairs, and with up to MaxAround characters before and after, and on  *)
(* the example of the spec.                                                *)
(***************************************************************************)
MaxInlineLen == 4

MaxAround == 1

InlineAlphabet == {"*", "_", "[", "]", "(", ")", "a"}

MarkupTexts ==
    {<<"[", "a", "]", "(", "a", ")">>,
     <<"[", "*", "a", "*", "]", "(", "a", ")">>,
     <<"[", "a", "]", "(", "_", "a", "_", ")">>,
     <<"*", "*", "a", "*", "*">>,
     <<"_", "_", "a", "_", "_">>,
     <<"*", "*", "_", "a", "_", "*", "*">>,
     <<"*", "a", "*">>,
     <<"_", "a", "_">>}

\* **a** and *b* and [c](http://x)
Example ==
    <<"*", "*", "a", "*", "*", " ", "a", "n", "d", " ", "*", "b", "*", " ",
      "a", "n", "d", " ", "[", "c", "]", "(", "h", "t", "t", "p", ":", "/",
      "/", "x", ")">>

\* a *a* _a_ a
ExampleGaps == <<"a", " ", "*", "a", "*", " ", "_", "a", "_", " ", "a">>

InlineTexts(maxLen, maxAround) ==
    StringsUpTo(InlineAlphabet, maxLen)
        \cup {pre \o m \o post : pre \in StringsUpTo(InlineAlphabet, maxAround),
                                  m \in MarkupTexts,
                                  post \in StringsUpTo(InlineAlphabet, maxAround)}
        \cup {m1 \o m2 : m1 \in MarkupTexts, m2 \in MarkupTexts}
        \cup {Example, ExampleGaps}

InitInline ==
    /\ text \in InlineTexts(MaxInlineLen, MaxAround)
    /\ i = 0
    /\ blocks = <<>>
    /\ parts = <<>>
    /\ pc = "inline"
    /\ GenIdle

SpecInline == InitInline /\ [][NextInline]_vars

\* the contents of the spans, concatenated (a link span gives its label)
RECURSIVE SpanText(_)
SpanText(ps) == IF ps = <<>> THEN <<>> ELSE Head(ps).content \o SpanText(Tail(ps))

\* what the pattern of a match captures as its text: group 1 of the
\* alternative that matched
Captured(t, m) ==
    IF m.alt = "link" THEN SubSeq(t, m.start + 2, FirstAt(t, m.start + 1, "]"))
    ELSE IF m.alt = "bold" THEN SubSeq(t, m.start + 3, m.end - 2)
    ELSE SubSeq(t, m.start + 2, m.end - 1)

\* t from offset pos with the delimiters of the matches ms removed
RECURSIVE MarkupRemoved(_, _, _)
MarkupRemoved(t, ms, pos) ==
    IF ms = <<>> THEN SubSeq(t, pos + 1, Len(t))
    ELSE SubSeq(t, pos + 1, Head(ms).start) \o Captured(t, Head(ms))
             \o MarkupRemoved(t, Tail(ms), Head(ms).end)

\* C3: the spans of _parse_inline are in source order and do not overlap, and
\* their contents (the label for a link) concatenated are the text with the
\* delimiters of the recognised markup removed: no character outside the
\* delimiters is lost, repeated or moved.
C3_SpansReconstructText ==
    pc = "done" => SpanText(parts) = MarkupRemoved(text, FindIter(text, 0), 0)

C3_Witness ==
    /\ pc = "done"
    /\ Len(parts) = 3
    /\ parts[1].type = "text"
    /\ parts[2].type \in {"italic", "link"}
    /\ parts[3].type = "text"
    /\ Len(SpanText(parts)) < Len(text)

RECURSIVE MarkupTypes(_)
MarkupTypes(ps) ==
    IF ps = <<>> THEN <<>>
    ELSE IF Head(ps).type = "text" THEN MarkupTypes(Tail(ps))
    ELSE <<Head(ps).type>> \o MarkupTypes(Tail(ps))

ExampleSpans ==
    <<Span("bold", <<"a">>),
      Span("text", <<" ", "a", "n", "d", " ">>),
      Span("italic", <<"b">>),
      Span("text", <<" ", "a", "n", "d", " ">>),
      LinkSpan(<<"c">>, <<"h", "t", "t", "p", ":", "/", "/", "x">>)>>

\* C4: one left-to-right scan; each markup span carries the type of the first
\* pattern (link, then bold, then italic) that matches where it starts, in the
\* order of the matches; and `**a** and *b* and [c](http://x)` gives bold "a",
\* text " and ", italic "b", text " and ", link ("c", "http://x").
C4_PriorityScan ==
    pc = "done" =>
        /\ MarkupTypes(parts)
               = [k \in 1..Len(FindIter(text, 0)) |-> FindIter(text, 0)[k].alt]
        /\ text = Example => parts = ExampleSpans

C4_Witness == pc = "done" /\ text = Example /\ Len(parts) = 5

(***************************************************************************)
(* The FPDF object as MarkdownPDF uses it (fpdf2, imported at line 10).    *)
(* The page is scaled down: PageHeight units high with the library's       *)
(* margins, and PageWidth character cells wide between the side margins,   *)
(* every character one cell wide.  x counts cells from the left margin.    *)
(* An operation on an object whose call has raised does nothing: the       *)
(* exception has left generate_pdf.                                        *)
(***************************************************************************)
PageHeight == 60

PageWidth == 2

\* FPDF's defaults: 1 cm margins, 2 cm page-break margin, unit mm
TopMargin == 10

DefaultBottomMargin == 20

\* the slip of letting a later candidate override an earlier one
RECURSIVE LastExisting(_, _)
LastExisting(paths, fs) ==
    IF paths = <<>> THEN "None"
    ELSE IF LastExisting(Tail(paths), fs) # "None"
    THEN LastExisting(Tail(paths), fs)
    ELSE IF Head(paths) \in fs THEN Head(paths)
    ELSE "None"

\* _find_font (lines 46-51): the first path of the style's list that exists
RECURSIVE FirstExisting(_, _)
FirstExisting(paths, fs) ==
    IF paths = <<>> THEN "None"
    ELSE IF Head(paths) \in fs THEN Head(paths)
    ELSE FirstExisting(Tail(paths), fs)

FindFont(font_type, fs) == FirstExisting(FONT_PATHS[font_type], fs)

\* MarkdownPDF.__init__ and _setup_fonts (lines 57-80), at clock reading t;
\* registered holds the (style, file) pairs given to add_font
NewMarkdownPDF(fs, t) ==
    LET regular == FindFont("regular", fs)
        bold == FindFont("bold", fs)
        italic == FindFont("italic", fs)
    IN  [NoPdf EXCEPT
            !.made = TRUE,
            !.b_margin = DefaultBottomMargin,
            !.created = t,
            !.font_name = IF regular # "None" THEN "Unicode" ELSE "Helvetica",
            !.registered =
                IF regular # "None"
                THEN {<<"", regular>>,
                      <<"B", IF bold # "None" THEN bold ELSE regular>>,
                      <<"I", IF italic # "None" THEN italic ELSE regular>>}
                ELSE {}]

\* the slip of keeping one module-level object for every call
SharedMarkdownPDF(fs, t) == IF pdf.made THEN pdf ELSE NewMarkdownPDF(fs, t)

\* the object a call works on (line 363)
CallPdf(fs, t) == NewMarkdownPDF(fs, t)

\* a character the built-in fonts can encode (Latin-1)
IsLatin1(c) == c \notin {BulletGlyph, Cyrillic}

\* FPDF.normalize_text: with a built-in font a character outside Latin-1
\* raises FPDFUnicodeEncodingException
CanEncode(st, txt) ==
    st.font_name # "Helvetica" \/ \A k \in 1..Len(txt) : IsLatin1(txt[k])

Raise(st) == [st EXCEPT !.raised = TRUE]

SetFont(st, style, size) ==
    IF st.raised THEN st ELSE [st EXCEPT !.style = style, !.size = size]

\* _set_color, _set_fill_color, _set_draw_color (lines 82-95)
SetColor(st, color_name) ==
    IF st.raised THEN st ELSE [st EXCEPT !.text_color = COLORS[color_name]]

SetFillColor(st, color_name) ==
    IF st.raised THEN st ELSE [st EXCEPT !.fill_color = COLORS[color_name]]

SetDrawColor(st, color_name) ==
    IF st.raised THEN st ELSE [st EXCEPT !.draw_color = COLORS[color_name]]

AddPage(st) ==
    IF st.raised THEN st ELSE [st EXCEPT !.page = @ + 1, !.x = 0, !.y = TopMargin]

SetAutoPageBreak(st, margin) ==
    IF st.raised THEN st ELSE [st EXCEPT !.b_margin = margin]

PageBreakTrigger(st) == PageHeight - st.b_margin

\* FPDF._perform_page_break_if_need_be(h): a new page when the unit of height h
\* would pass the trigger; x is kept
PageBreakIfNeeded(st, h) ==
    IF st.y + h > PageBreakTrigger(st)
    THEN [st EXCEPT !.page = @ + 1, !.y = TopMargin] ELSE st

\* FPDF.ln(h): back to the left margin, down by h; no page-break test
Ln(st, h) == IF st.raised THEN st ELSE [st EXCEPT !.x = 0, !.y = @ + h]

\* FPDF.ln(): down by the height of the last cell
LnLast(st) == Ln(st, st.lasth)

\* one drawn unit, with the state it is drawn in
Op(st, kind, txt, w, h, fill, link) ==
    [kind |-> kind, text |-> txt, w |-> w, h |-> h, fill |-> fill, link |-> link,
     style |-> st.style, size |-> st.size, text_color |-> st.text_color,
     page |-> st.page, y |-> st.y]

\* FPDF.cell(w, h, txt, ln=..., fill=...): w is <<dividend, divisor>>, the
\* whole line for <<0, 1>>; without ln the cursor moves right by w, and
\* nothing tests it against the right margin
Cell(st, w, h, txt, ln, fill) ==
    IF st.raised THEN st
    ELSE IF ~CanEncode(st, txt) THEN Raise(st)
    ELSE LET s1 == PageBreakIfNeeded(st, h)
             s2 == [s1 EXCEPT !.ops = Append(@, Op(s1, "cell", txt, w, h, fill, <<>>)),
                              !.lasth = h]
         IN  IF ln THEN [s2 EXCEPT !.x = 0, !.y = @ + h]
             ELSE [s2 EXCEPT !.x = @ + (w[1] \div w[2])]

Min(a, b) == IF a < b THEN a ELSE b

\* the lines of FPDF.write and FPDF.multi_cell: each line is tested for a page
\* break, then drawn; a full line moves to the next
RECURSIVE FlowLines(_, _, _, _)
FlowLines(st, h, txt, link) ==
    IF txt = <<>> THEN st
    ELSE IF st.x >= PageWidth
    THEN FlowLines([st EXCEPT !.x = 0, !.y = @ + h], h, txt, link)
    ELSE LET n == Min(Len(txt), PageWidth - st.x)
             s1 == PageBreakIfNeeded(st, h)
             s2 == [s1 EXCEPT
                       !.ops = Append(@, Op(s1, "text", SubSeq(txt, 1, n),
                                            <<0, 1>>, h, FALSE, link)),
                       !.lasth = h,
                       !.x = @ + n]
         IN  FlowLines(s2, h, SubSeq(txt, n + 1, Len(txt)), link)

\* FPDF.write(h, txt, link): the text flows on from x and the cursor stays
\* after its last character
Write(st, h, txt, link) ==
    IF st.raised THEN st
    ELSE IF ~CanEncode(st, txt) THEN Raise(st)
    ELSE FlowLines(st, h, txt, link)

\* FPDF.multi_cell(0, h, txt): the text in lines to the right margin, the cursor
\* below the last line
MultiCell(st, h, txt) ==
    IF st.raised THEN st
    ELSE IF ~CanEncode(st, txt) THEN Raise(st)
    ELSE LET s1 == FlowLines(st, h, txt, <<>>) IN [s1 EXCEPT !.y = @ + h]

\* FPDF.line: a rule at the cursor's height; no page-break test
Line(st) ==
    IF st.raised THEN st
    ELSE [st EXCEPT !.ops = Append(@, Op(st, "line", <<>>, <<0, 1>>, 0, FALSE, <<>>))]

(***************************************************************************)
(* The renderers of MarkdownPDF (lines 97-198 and 249-255).                *)
(***************************************************************************)
RenderHeader1(st, txt) ==
    LET s1 == Ln(st, 4)
        s2 == SetFont(s1, "B", 16)
        s3 == SetColor(s2, "header1")
        s4 == MultiCell(s3, 8, Strip(txt))
        s5 == SetColor(s4, "text")
    IN  Ln(s5, 2)

RenderHeader2(st, txt) ==
    LET s1 == Ln(st, 3)
        s2 == SetFont(s1, "B", 12)
        s3 == SetColor(s2, "header2")
        s4 == MultiCell(s3, 6, Strip(txt))
        s5 == SetColor(s4, "text")
    IN  Ln(s5, 1)

\* the cells of one row (lines 136-138)
RECURSIVE RowCellsDrawn(_, _, _, _)
RowCellsDrawn(st, row, col_width, fill) ==
    IF row = <<>> THEN st
    ELSE RowCellsDrawn(Cell(st, col_width, 7, Strip(Head(row)), FALSE, fill),
                       Tail(row), col_width, fill)

\* the rows from index r on (lines 128-139)
RECURSIVE RowsDrawn(_, _, _, _)
RowsDrawn(st, rows, r, col_width) ==
    IF r >= Len(rows) THEN st
    ELSE LET s1 == IF r = 0
                   THEN SetFont(SetFillColor(st, "table_header"), "B", 10)
                   ELSE SetFont(st, "", 10)
             s2 == RowCellsDrawn(s1, rows[r + 1], col_width, r = 0)
         IN  RowsDrawn(LnLast(s2), rows, r + 1, col_width)

\* render_table (lines 115-141); a first row without cells divides by zero
RenderTable(st, rows) ==
    IF rows = <<>> THEN st
    ELSE LET s1 == SetDrawColor(SetFont(st, "", 10), "table_border")
             col_count == Len(rows[1])
         IN  IF col_count = 0 THEN Raise(s1)
             ELSE Ln(RowsDrawn(s1, rows, 0, <<PageWidth, col_count>>), 2)

\* the slip of leaving the style of a bold or italic span, and the colour of a
\* link span, active after the span
RECURSIVE SpansWrittenKeepStyle(_, _)
SpansWrittenKeepStyle(st, ps) ==
    IF ps = <<>> THEN st
    ELSE LET part == Head(ps)
             s1 == IF part.type = "bold"
                   THEN Write(SetFont(st, "B", 11), 5, part.content, <<>>)
                   ELSE IF part.type = "italic"
                   THEN Write(SetFont(st, "I", 11), 5, part.content, <<>>)
                   ELSE IF part.type = "link"
                   THEN Write(SetFont(SetColor(st, "link"), "", 11),
                              5, part.content, part.url)
                   ELSE Write(st, 5, part.content, <<>>)
         IN  SpansWrittenKeepStyle(s1, Tail(ps))

\* the loop of _render_inline_text over the spans (lines 180-196)
RECURSIVE SpansWritten(_, _)
SpansWritten(st, ps) ==
    IF ps = <<>> THEN st
    ELSE LET part == Head(ps)
             s1 == IF part.type = "bold"
                   THEN SetFont(Write(SetFont(st, "B", 11), 5, part.content, <<>>),
                                "", 11)
                   ELSE IF part.type = "italic"
                   THEN SetFont(Write(SetFont(st, "I", 11), 5, part.content, <<>>),
                                "", 11)
                   ELSE IF part.type = "link"
                   THEN SetColor(Write(SetFont(SetColor(st, "link"), "", 11),
                                       5, part.content, part.url),
                                 "text")
                   ELSE Write(st, 5, part.content, <<>>)
         IN  SpansWritten(s1, Tail(ps))

\* _render_inline_text (lines 171-198)
RenderInlineText(st, txt) == LnLast(SpansWritten(st, ParseInline(txt)))

\* set_x(l_margin + indent): the 5 mm indent of a list item is one cell
SetX(st, x) == IF st.raised THEN st ELSE [st EXCEPT !.x = x]

\* render_bullet at level 0 (lines 143-153)
RenderBullet(st, txt) ==
    LET s1 == SetColor(SetFont(st, "", 11), "text")
        s2 == SetX(s1, 1)
        s3 == RenderInlineText(s2, <<BulletGlyph, " ">> \o Strip(txt))
    IN  Ln(s3, 1)

\* render_numbered_item (lines 155-162)
RenderNumberedItem(st, number, txt) ==
    LET s1 == SetColor(SetFont(st, "", 11), "text")
        s2 == SetX(s1, 1)
        s3 == RenderInlineText(s2, number \o <<".", " ">> \o Strip(txt))
    IN  Ln(s3, 1)

\* render_paragraph (lines 164-169)
RenderParagraph(st, txt) ==
    LET s1 == SetColor(SetFont(st, "", 11), "text")
        s2 == RenderInlineText(s1, Strip(txt))
    IN  Ln(s2, 2)

\* render_separator (lines 249-255)
RenderSeparator(st) ==
    LET s1 == Ln(st, 3)
        s2 == SetDrawColor(s1, "table_border")
        s3 == Line(s2)
    IN  Ln(s3, 5)

(***************************************************************************)
(* generate_pdf (lines 352-406).                                           *)
(***************************************************************************)
\* the clock has MinuteLength seconds to the minute; strftime("%Y-%m-%d %H:%M")
\* keeps the minute
MinuteLength == 2

DateOf(t) == t \div MinuteLength

DigitChars == <<"0", "1", "2", "3", "4", "5", "6", "7", "8", "9">>

\* f"Generated: {date_str}"
DateLine(t) ==
    <<"G", "e", "n", "e", "r", "a", "t", "e", "d", ":", " ",
      DigitChars[(DateOf(t) % 10) + 1]>>

\* lines 364-378: the first page and the document header on the object s0
HeaderOn(s0, t, ttl) ==
    LET s1 == SetAutoPageBreak(AddPage(s0), 15)
        s2 == SetColor(SetFont(s1, "B", 18), "header1")
        s3 == Ln(Cell(s2, <<0, 1>>, 12, ttl, TRUE, FALSE), 3)
        s4 == SetColor(SetFont(s3, "", 9), "gray")
    IN  Ln(Cell(s4, <<0, 1>>, 5, DateLine(t), TRUE, FALSE), 8)

\* lines 363-378: the object of the call with its header
HeaderWritten(fs, t, ttl) == HeaderOn(CallPdf(fs, t), t, ttl)

\* parse_markdown as a function: the loop run to its end
RECURSIVE ParseFrom(_, _, _)
ParseFrom(lines, k, bl) ==
    IF k < Len(lines)
    THEN ParseFrom(lines, LoopBody(lines, k, bl).i, LoopBody(lines, k, bl).blocks)
    ELSE bl

ParseMarkdown(t) == ParseFrom(SplitLines(t), 0, <<>>)

\* the dispatch of lines 386-399 on one block
RenderBlock(st, block) ==
    IF block.type = "h1" THEN RenderHeader1(st, block.content)
    ELSE IF block.type = "h2" THEN RenderHeader2(st, block.content)
    ELSE IF block.type = "table" THEN RenderTable(st, block.rows)
    ELSE IF block.type = "bullet" THEN RenderBullet(st, block.content)
    ELSE IF block.type = "numbered"
    THEN RenderNumberedItem(st, block.number, block.content)
    ELSE IF block.type = "separator" THEN RenderSeparator(st)
    ELSE IF block.type = "paragraph" THEN RenderParagraph(st, block.content)
    ELSE st

\* generate_pdf up to the loop: an exception ends the call
GenStart ==
    /\ pc = "call"
    /\ pdf' = HeaderWritten(files, now, title)
    /\ blocks' = IF pdf'.raised THEN <<>> ELSE ParseMarkdown(text)
    /\ cursor' = 0
    /\ pc' = IF pdf'.raised THEN "raised" ELSE "render"
    /\ UNCHANGED <<text, i, parts, title, files, now, calls, last, COLORS, FONT_PATHS>>
    /\ UNCHANGED bvars

\* the loop of line 383 is at a block of the given type
AtBlock(type) ==
    /\ pc = "render"
    /\ cursor < Len(blocks)
    /\ blocks[cursor + 1].type = type

\* the renderer has left the object as st: on to the next block, unless it raised
Rendered(st) ==
    /\ pdf' = st
    /\ cursor' = cursor + 1
    /\ pc' = IF st.raised THEN "raised" ELSE "render"
    /\ UNCHANGED <<text, i, blocks, parts, title, files, now, calls, last,
                   COLORS, FONT_PATHS>>
    /\ UNCHANGED bvars

\* the branches of lines 386-399
DispatchH1 ==
    /\ AtBlock("h1")
    /\ Rendered(RenderHeader1(pdf, blocks[cursor + 1].content))

DispatchH2 ==
    /\ AtBlock("h2")
    /\ Rendered(RenderHeader2(pdf, blocks[cursor + 1].content))

DispatchTable ==
    /\ AtBlock("table")
    /\ Rendered(RenderTable(pdf, blocks[cursor + 1].rows))

DispatchBullet ==
    /\ AtBlock("bullet")
    /\ Rendered(RenderBullet(pdf, blocks[cursor + 1].content))

DispatchNumbered ==
    /\ AtBlock("numbered")
    /\ Rendered(RenderNumberedItem(pdf, blocks[cursor + 1].number,
                                   blocks[cursor + 1].content))

DispatchSeparator ==
    /\ AtBlock("separator")
    /\ Rendered(RenderSeparator(pdf))

DispatchParagraph ==
    /\ AtBlock("paragraph")
    /\ Rendered(RenderParagraph(pdf, blocks[cursor + 1].content))

\* lines 401-406: the buffer is written and returned
GenOutput ==
    /\ pc = "render"
    /\ cursor = Len(blocks)
    /\ pc' = "done"
    /\ UNCHANGED <<text, i, blocks, parts, title, files, now, pdf, cursor, calls,
                   last, COLORS, FONT_PATHS>>
    /\ UNCHANGED bvars

NextRender ==
    \/ GenStart
    \/ DispatchH1
    \/ DispatchH2
    \/ DispatchTable
    \/ DispatchBullet
    \/ DispatchNumbered
    \/ DispatchSeparator
    \/ DispatchParagraph
    \/ GenOutput

(***************************************************************************)
(* SpecRender: one generate_pdf call on every text of up to MaxRenderLines *)
(* lines drawn from RenderLines, every title of Titles and every host of   *)
(* FileSystems.                                                            *)
(***************************************************************************)
MaxRenderLines == 2

RenderLines ==
    {<<"#", " ", "a">>,
     <<"#", "#", "#", " ", "a">>,
     <<"-", " ", "a">>,
     <<"1", ".", " ", "a">>,
     <<"-", "-", "-">>,
     <<"a">>,
     <<Cyrillic>>,
     <<"|", "a", "|">>,
     <<"|", Cyrillic, "|", "a", "|">>,
     <<"|">>,
     <<>>,
     <<"*", "a", "*">>,
     <<"*", "*", "a", "*", "*">>,
     <<"[", "a", "]", "(", "a", ")">>}

RenderTexts(maxLines) ==
    UNION {{Join(ls, <<NL>>) : ls \in [1..n -> RenderLines]} : n \in 0..maxLines}

Titles == {<<>>, <<"T">>, <<Cyrillic>>}

\* no font file; the regular DejaVu file alone; the bold file alone; the three
\* DejaVu files
FileSystems ==
    {{},
     {"dejavu/DejaVuSans.ttf"},
     {"dejavu/DejaVuSans-Bold.ttf"},
     {"dejavu/DejaVuSans.ttf", "dejavu/DejaVuSans-Bold.ttf",
      "dejavu/DejaVuSans-Oblique.ttf"}}

InitCall(texts, titles, hosts) ==
    /\ BotIdle
    /\ text \in texts
    /\ title \in titles
    /\ files \in hosts
    /\ i = 0
    /\ blocks = <<>>
    /\ parts = <<>>
    /\ pc = "call"
    /\ now = 0
    /\ pdf = NoPdf
    /\ cursor = 0
    /\ calls = 1
    /\ last = NoCall
    /\ COLORS = ImportedColors
    /\ FONT_PATHS = ImportedFontPaths

InitRender == InitCall(RenderTexts(MaxRenderLines), Titles, FileSystems)

SpecRender == InitRender /\ [][NextRender]_vars

(***************************************************************************)
(* SpecCalls: up to MaxCalls generate_pdf calls one after the other in one *)
(* process, the clock advancing between them up to MaxClock.  last keeps   *)
(* what the previous call was given and what it gave back.                 *)
(***************************************************************************)
MaxCalls == 2
MaxClock == 2

\* one text for each block type, the empty text and a non-Latin paragraph
CallTexts ==
    {<<>>,
     <<"#", " ", "a">>,
     <<"#", "#", "#", " ", "a">>,
     <<"-", " ", "a">>,
     <<"1", ".", " ", "a">>,
     <<"-", "-", "-">>,
     <<"a">>,
     <<Cyrillic>>,
     <<"|", "a", "|">>}

CallTitles == {<<"T">>, <<Cyrillic>>}

CallHosts ==
    {{},
     {"dejavu/DejaVuSans.ttf", "dejavu/DejaVuSans-Bold.ttf",
      "dejavu/DejaVuSans-Oblique.ttf"}}

\* the call is over: it returned the buffer or an exception left it
CallOver == pc \in {"done", "raised"}

\* the clock advances between two calls
Tick ==
    /\ CallOver
    /\ now < MaxClock
    /\ now' = now + 1
    /\ UNCHANGED <<text, i, blocks, parts, pc, title, files, pdf, cursor, calls,
                   last, COLORS, FONT_PATHS>>
    /\ UNCHANGED bvars

\* the caller calls generate_pdf again (bot_multi.py line 674): the locals of
\* line 363 and line 381 are new, the object of the call before is what the
\* interpreter still holds of it
NewCall ==
    /\ CallOver
    /\ calls < MaxCalls
    /\ last' = [made |-> TRUE, text |-> text, title |-> title,
                date |-> DateOf(pdf.created), files |-> files,
                returned |-> (pc = "done"), ops |-> pdf.ops,
                created |-> pdf.created]
    /\ text' \in CallTexts
    /\ title' \in CallTitles
    /\ blocks' = <<>>
    /\ cursor' = 0
    /\ calls' = calls + 1
    /\ pc' = "call"
    /\ UNCHANGED <<i, parts, files, now, pdf, COLORS, FONT_PATHS>>
    /\ UNCHANGED bvars

NextCalls ==
    \/ GenStart
    \/ DispatchH1
    \/ DispatchH2
    \/ DispatchTable
    \/ DispatchBullet
    \/ DispatchNumbered
    \/ DispatchSeparator
    \/ DispatchParagraph
    \/ GenOutput
    \/ Tick
    \/ NewCall

InitCalls == InitCall(CallTexts, CallTitles, CallHosts)

SpecCalls == InitCalls /\ [][NextCalls]_vars

\* C5: when no regular Unicode font exists at any candidate path, the object
\* keeps the built-in font and generate_pdf never raises, whatever the title
\* and the text hold (non-Latin text and bullet items included).
C5_FallbackNeverRaises ==
    FindFont("regular", files) = "None"
        => /\ pdf.made => pdf.font_name = "Helvetica"
           /\ pc # "raised"

\* the two cells of the document header and nothing else
HeaderOnly(ops, ttl, t) ==
    /\ Len(ops) = 2
    /\ ops[1].kind = "cell" /\ ops[1].text = ttl
    /\ ops[2].kind = "cell" /\ ops[2].text = DateLine(t)

\* C6: a call with an empty title or an empty text (or both) does not raise,
\* and with an empty text the document returned holds the header (title line
\* and timestamp) and no block content.
C6_EmptyInputsGiveHeader ==
    (title = <<>> \/ text = <<>>)
        => /\ pc # "raised"
           /\ (pc = "done" /\ text = <<>>) => HeaderOnly(pdf.ops, title, now)

\* the cells of the rows, row by row
RECURSIVE AllCells(_)
AllCells(rows) == IF rows = <<>> THEN <<>> ELSE Head(rows) \o AllCells(Tail(rows))

UnequalRows(rows) == \E r \in 1..Len(rows) : Len(rows[r]) # Len(rows[1])

\* the last n drawn units
LastOps(ops, n) == SubSeq(ops, Len(ops) - n + 1, Len(ops))

\* a table with unequal rows has just been rendered and every one of its
\* cells was drawn as given, in order, with the width computed from row one
TableDrawnAsGiven ==
    LET cells == AllCells(blocks[cursor].rows)
        drawn == LastOps(pdf.ops, Len(cells))
    IN  /\ Len(pdf.ops) >= Len(cells)
        /\ \A k \in 1..Len(cells) :
               /\ drawn[k].kind = "cell"
               /\ drawn[k].text = cells[k]
               /\ drawn[k].w = <<PageWidth, Len(blocks[cursor].rows[1])>>

\* the loop of line 383 has just left a table with unequal rows
AfterUnequalTable ==
    /\ pc \in {"render", "raised"}
    /\ cursor >= 1
    /\ blocks[cursor].type = "table"
    /\ UnequalRows(blocks[cursor].rows)

\* C7: rendering a table whose rows have unequal cell counts does not raise,
\* and every cell of every row is drawn as given, in order, each with the
\* column width computed from the first row.
C7_UnequalRowsRender ==
    AfterUnequalTable => pc # "raised" /\ TableDrawnAsGiven

\* the same on the hosts where a regular Unicode font is found
C7_UnequalRowsRenderUnicode ==
    (AfterUnequalTable /\ pdf.font_name = "Unicode")
        => pc # "raised" /\ TableDrawnAsGiven

\* pdf.output(buffer) of lines 402-406: the drawn content and the /CreationDate
\* entry FPDF keeps from the clock reading of its construction
Buffer(ops, created) == [content |-> ops, creation_date |-> created]

\* C8: a call that returns after an earlier call with the same text, the same
\* title and the same generation timestamp (the header's minute) on the same
\* host returns the very bytes the earlier call returned.
C8_SameInputsSameBytes ==
    (/\ pc = "done"
     /\ last.made /\ last.returned
     /\ last.text = text /\ last.title = title /\ last.files = files
     /\ last.date = DateOf(pdf.created))
        => Buffer(pdf.ops, pdf.created) = Buffer(last.ops, last.created)

\* C9: no renderable unit (a line of text, a table cell, a separator rule) is
\* drawn past the bottom margin: its lower edge never lies below the
\* page-break trigger.
C9_NothingBelowBottomMargin ==
    \A k \in 1..Len(pdf.ops) :
        pdf.ops[k].y + pdf.ops[k].h <= PageBreakTrigger(pdf)

\* the renderers applied to the blocks in order, as the loop of line 383 does
RECURSIVE RenderAll(_, _)
RenderAll(st, bl) ==
    IF bl = <<>> THEN st ELSE RenderAll(RenderBlock(st, Head(bl)), Tail(bl))

\* what generate_pdf does to an object of its own, on a host with files fs at
\* clock reading t
OwnRun(fs, t, ttl, txt) ==
    LET h == HeaderOn(NewMarkdownPDF(fs, t), t, ttl)
    IN  IF h.raised THEN h ELSE RenderAll(h, ParseMarkdown(txt))

RECURSIVE Range(_)
Range(seq) == IF seq = <<>> THEN {} ELSE {Head(seq)} \cup Range(Tail(seq))

FontStyles == {"regular", "bold", "italic"}

AllFontFiles == UNION {Range(ImportedFontPaths[s]) : s \in FontStyles}

InitFonts ==
    /\ BotIdle
    /\ text = <<>>
    /\ i = 0
    /\ blocks = <<>>
    /\ parts = <<>>
    /\ pc = "new"
    /\ title = <<>>
    /\ files \in SUBSET AllFontFiles
    /\ now = 0
    /\ pdf = NoPdf
    /\ cursor = 0
    /\ calls = 0
    /\ last = NoCall
    /\ COLORS = ImportedColors
    /\ FONT_PATHS = ImportedFontPaths

\* MarkdownPDF() (lines 57-60)
Construct ==
    /\ pc = "new"
    /\ pdf' = NewMarkdownPDF(files, now)
    /\ pc' = "made"
    /\ UNCHANGED <<text, i, blocks, parts, title, files, now, cursor, calls, last,
                   COLORS, FONT_PATHS>>
    /\ UNCHANGED bvars

NextFonts == Construct

SpecFonts == InitFonts /\ [][NextFonts]_vars

\* the places of a style's candidate list whose file exists on the host
ExistingAt(style) ==
    {k \in 1..Len(ImportedFontPaths[style]) : ImportedFontPaths[style][k] \in files}

\* the candidate of a style that comes first in list order among those that
\* exist, "None" when none exists
FirstCandidate(style) ==
    IF ExistingAt(style) = {} THEN "None"
    ELSE ImportedFontPaths[style][CHOOSE k \in ExistingAt(style) :
                                      \A m \in ExistingAt(style) : k <= m]

\* the file registered for a style: its own first candidate, else the regular one
FileFor(style) ==
    IF FirstCandidate(style) # "None" THEN FirstCandidate(style)
    ELSE FirstCandidate("regular")

\* C11: each style resolves, independently of the others, to its first
\* existing candidate in list order; when a regular file is found the three
\* styles are registered under the Unicode name, bold and italic with the
\* regular file when their own is missing; when no regular file is found
\* nothing is registered and the font name stays the built-in one, whatever
\* bold or italic files exist.
C11_FontResolution ==
    pc = "made" =>
        /\ \A s \in FontStyles : FindFont(s, files) = FirstCandidate(s)
        /\ FirstCandidate("regular") # "None" =>
              /\ pdf.font_name = "Unicode"
              /\ pdf.registered = {<<"", FileFor("regular")>>,
                                   <<"B", FileFor("bold")>>,
                                   <<"I", FileFor("italic")>>}
        /\ FirstCandidate("regular") = "None" =>
              /\ pdf.font_name = "Helvetica"
              /\ pdf.registered = {}

\* a host with the first two regular candidates, no bold candidate and the
\* second italic one: bold is registered with the first regular file
C11_Witness ==
    /\ pc = "made"
    /\ ExistingAt("regular") = {1, 2}
    /\ ExistingAt("bold") = {}
    /\ ExistingAt("italic") = {2}
    /\ pdf.registered = {<<"", ImportedFontPaths.regular[1]>>,
                         <<"B", ImportedFontPaths.regular[1]>>,
                         <<"I", ImportedFontPaths.italic[2]>>}

(***************************************************************************)
(* SpecBlocks: parse_markdown on every text of up to MaxBlockLines lines   *)
(* drawn from BlockLines, which holds lines of every rule, lines that      *)
(* nearly match a rule, and blank lines.                                   *)
(***************************************************************************)
MaxBlockLines == 2

BlockLines ==
    {<<>>,
     <<" ">>,
     <<"a">>,
     <<" ", "a", " ">>,
     <<"#", "a">>,
     <<"#", " ", "a">>,
     <<"#", "#", " ", "a">>,
     <<"#", "#", "#", " ", "a">>,
     <<"-", "-", "-">>,
     <<"*", "*", "*">>,
     <<"_", "_", "_">>,
     <<"-", " ", "a">>,
     <<"*", " ", "a">>,
     <<BulletGlyph, " ", "a">>,
     <<"-", "a">>,
     <<"1", ".", " ", "a">>,
     <<"1", ".", "a">>,
     <<"1", "2", ".", " ", " ", "a">>,
     <<"|", "a", "|">>,
     <<"|", "-", "|">>,
     <<"|", "a">>,
     <<"a", "|">>,
     <<"#">>,
     <<"\t">>}

BlockTexts(maxLines) ==
    UNION {{Join(ls, <<NL>>) : ls \in [1..n -> BlockLines]} : n \in 0..maxLines}

InitBlocks == InitParse(BlockTexts(MaxBlockLines))

SpecBlocks == InitBlocks /\ [][NextParse]_vars

\* a text of whitespace only (blanks, tabs, line breaks): every line of it is
\* blank
AllBlank(t) == \A k \in 1..Len(t) : t[k] \in {" ", "\t", NL}

\* the lines from index from (0-based) up to, not including, index to
LinesBetween(lines, from, to) == Join(SubSeq(lines, from + 1, to), <<NL>>)

\* C12: a text that is empty or holds only blank lines gives no block; an
\* iteration at a blank line appends nothing; every iteration moves the line
\* index forward and appends, after the blocks of the earlier lines, exactly
\* the blocks of the lines it consumed, so the blocks are in source order.
C12_BlankLinesAndOrder ==
    /\ []((pc = "done" /\ AllBlank(text)) => blocks = <<>>)
    /\ [][ParseStep =>
            /\ i' > i
            /\ AllBlank(SplitLines(text)[i + 1]) => blocks' = blocks
            /\ blocks' = blocks \o ParseMarkdown(LinesBetween(SplitLines(text), i, i'))
         ]_vars

\* a text of two whitespace-only lines has been parsed to no block
C12_Witness ==
    /\ pc = "done"
    /\ Len(SplitLines(text)) = 2
    /\ SplitLines(text)[1] # <<>> /\ SplitLines(text)[2] # <<>>
    /\ AllBlank(text)
    /\ i = 2
    /\ blocks = <<>>

\* the rule a trimmed, non-blank line falls under, the rules taken in order
RuleOf(s) ==
    IF StartsWith(s, <<"#", "#", " ">>) \/ StartsWith(s, <<"#", " ">>) THEN "h1"
    ELSE IF StartsWith(s, <<"#", "#", "#", " ">>) THEN "h2"
    ELSE IF s \in {<<"-", "-", "-">>, <<"*", "*", "*">>, <<"_", "_", "_">>}
    THEN "separator"
    ELSE IF StartsWith(s, <<"|">>) THEN "table"
    ELSE IF \/ StartsWith(s, <<BulletGlyph, " ">>)
            \/ StartsWith(s, <<"-", " ">>)
            \/ StartsWith(s, <<"*", " ">>)
    THEN "bullet"
    ELSE IF NumPrefixMatch(s) THEN "numbered"
    ELSE "paragraph"

\* the block b is what the rule of the trimmed line s asks for
BlockFollowsRule(b, s) ==
    /\ b.type = RuleOf(s)
    /\ RuleOf(s) = "h1" =>
          b.content = IF StartsWith(s, <<"#", "#", " ">>) THEN From(s, 3) ELSE From(s, 2)
    /\ RuleOf(s) = "h2" => b.content = From(s, 4)
    /\ RuleOf(s) = "numbered" =>
          /\ b.number = SubSeq(s, 1, DigitRun(s))
          /\ b.content = LStrip(From(s, DigitRun(s) + 1))

\* C13: an iteration at a non-blank line appends at most one block; the block
\* is of the first rule, in the order heading, separator, table, bullet,
\* numbered item, paragraph, that the trimmed line matches, with the content
\* (and number) the rule gives; every rule but the table rule always appends.
C13_FirstMatchingRule ==
    [][(ParseStep /\ ~AllBlank(SplitLines(text)[i + 1])) =>
          LET s == Strip(SplitLines(text)[i + 1])
          IN  /\ RuleOf(s) # "table" => Len(blocks') = Len(blocks) + 1
              /\ blocks' # blocks =>
                    /\ blocks' = Append(blocks, blocks'[Len(blocks')])
                    /\ BlockFollowsRule(blocks'[Len(blocks')], s)
      ]_vars

\* the line *** has given a separator and the line "* a" after it a bullet
C13_Witness ==
    /\ pc = "done"
    /\ SplitLines(text) = <<<<"*", "*", "*">>, <<"*", " ", "a">>>>
    /\ Len(blocks) = 2
    /\ blocks[1].type = "separator"
    /\ blocks[2].type = "bullet"

\* the whole trimmed row is a | followed only by -, :, whitespace and | up to
\* a final |
WholeRowSeparator(row) ==
    /\ Len(row) >= 3
    /\ row[1] = "|"
    /\ row[Len(row)] = "|"
    /\ \A k \in 2..(Len(row) - 1) : row[k] \in {"-", ":", "|", " ", "\t"}

\* the rows kept of the captured lines: every row that is no alignment
\* separator and has an inner cell, its inner cells trimmed, in order
RECURSIVE KeptRows(_)
KeptRows(lines) ==
    IF lines = <<>> THEN <<>>
    ELSE LET row == Strip(Head(lines))
             cells == StripAll(InnerCells(row))
         IN  IF ~WholeRowSeparator(row) /\ cells # <<>>
             THEN <<cells>> \o KeptRows(Tail(lines))
             ELSE KeptRows(Tail(lines))

\* C14: of the rows of a captured table exactly those that are alignment
\* separators as a whole, and those without an inner cell, are discarded;
\* every other row is a data row of the table block, its inner cells trimmed
\* and in order.
C14_SeparatorIffWholeRow ==
    pc = "done" =>
        blocks = IF KeptRows(SplitLines(text)) = <<>> THEN <<>>
                 ELSE <<TableBlock(KeptRows(SplitLines(text)))>>

\* the trimmed line matches one of the rules before the paragraph rule
MatchesBlockRule(s) == s # <<>> /\ RuleOf(s) # "paragraph"

\* the lines a paragraph that starts at index k (0-based) takes: the first
\* line and the following ones up to the first blank line or rule line
RECURSIVE ParagraphRun(_, _)
ParagraphRun(lines, k) ==
    IF k < Len(lines) /\ Strip(lines[k + 1]) # <<>>
                      /\ ~MatchesBlockRule(Strip(lines[k + 1]))
    THEN <<Strip(lines[k + 1])>> \o ParagraphRun(lines, k + 1)
    ELSE <<>>

\* C15: an iteration that starts a paragraph takes the first line and every
\* line after it up to the first blank line or the first line that matches a
\* heading, separator, table, bullet or numbered-item rule, and no further or
\* fewer; the content is those lines trimmed and joined with single spaces.
C15_ParagraphRun ==
    [][(/\ ParseStep
        /\ ~AllBlank(SplitLines(text)[i + 1])
        /\ RuleOf(Strip(SplitLines(text)[i + 1])) = "paragraph") =>
          LET lines == SplitLines(text)
              run == <<Strip(lines[i + 1])>> \o ParagraphRun(lines, i + 1)
          IN  /\ i' = i + Len(run)
              /\ blocks' = Append(blocks, Block("paragraph", Join(run, <<" ">>)))
      ]_vars

\* a span reduced to what the plain text of a scan shows of it: a plain-text
\* span with its content, or the place of a markup span
PlainAt(content) == [plain |-> TRUE, content |-> content]

MarkupAt == [plain |-> FALSE, content |-> <<>>]

PlainShape(ps) ==
    [k \in 1..Len(ps) |-> IF ps[k].type = "text" THEN PlainAt(ps[k].content)
                          ELSE MarkupAt]

\* the matches ms of t from offset pos on, each preceded by the text since
\* the match before it when there is any, and followed at the end by the text
\* after the last match when there is any
RECURSIVE GapShape(_, _, _)
GapShape(t, ms, pos) ==
    IF ms = <<>>
    THEN IF pos < Len(t) THEN <<PlainAt(SubSeq(t, pos + 1, Len(t)))>> ELSE <<>>
    ELSE (IF Head(ms).start > pos
          THEN <<PlainAt(SubSeq(t, pos + 1, Head(ms).start))>> ELSE <<>>)
             \o <<MarkupAt>> \o GapShape(t, Tail(ms), Head(ms).end)

\* C16: the text before the first match, between two matches and after the
\* last match is each one plain-text span, verbatim and in its place among
\* the markup spans, and there is no other plain-text span; a text without a
\* match gives the one plain-text span that is the whole text.
C16_PlainTextVerbatim ==
    pc = "done" =>
        PlainShape(parts) = IF FindIter(text, 0) = <<>> THEN <<PlainAt(text)>>
                            ELSE GapShape(text, FindIter(text, 0), 0)

\* two matches with text before, between and after them
C16_Witness ==
    /\ pc = "done"
    /\ text = ExampleGaps
    /\ Len(FindIter(text, 0)) = 2
    /\ parts = <<Span("text", <<"a", " ">>), Span("italic", <<"a">>),
                 Span("text", <<" ">>), Span("italic", <<"a">>),
                 Span("text", <<" ", "a">>)>>

\* the characters the claim counts as opening delimiters
DelimiterChars == {"*", "_", "["}

\* the offsets of t that hold the delimiters of the match m
MatchDelims(t, m) ==
    IF m.alt = "link"
    THEN LET q == FirstAt(t, m.start + 1, "]")
         IN  {m.start, q, q + 1, m.end - 1}
    ELSE IF m.alt = "bold" THEN {m.start, m.start + 1, m.end - 2, m.end - 1}
    ELSE {m.start, m.end - 1}

\* the match m of t is delimited: its opening and its closing delimiter stand
\* in the text
Delimited(t, m) ==
    IF m.alt = "link"
    THEN LET q == FirstAt(t, m.start + 1, "]")
         IN  /\ CharAt(t, m.start) = "["
             /\ CharAt(t, q) = "]" /\ CharAt(t, q + 1) = "("
             /\ q + 1 < m.end - 1
             /\ CharAt(t, m.end - 1) = ")"
    ELSE IF m.alt = "bold"
    THEN /\ m.end - m.start >= 5
         /\ CharAt(t, m.start) \in {"*", "_"}
         /\ \A p \in {m.start + 1, m.end - 2, m.end - 1} :
                CharAt(t, p) = CharAt(t, m.start)
    ELSE /\ m.end - m.start >= 3
         /\ CharAt(t, m.start) \in {"*", "_"}
         /\ CharAt(t, m.end - 1) = CharAt(t, m.start)

\* the offsets of t that hold a delimiter character no match uses as one
Unmatched(t, ms) ==
    {p \in 0..(Len(t) - 1) :
        /\ t[p + 1] \in DelimiterChars
        /\ \A k \in 1..Len(ms) : p \notin MatchDelims(t, ms[k])}

InsideMatch(ms, p) == \E k \in 1..Len(ms) : ms[k].start <= p /\ p < ms[k].end

\* where the spans of a scan come from: for each span its type and the
\* offsets [from, to) of its content in t, and [ufrom, uto) of a link's url
PlainPiece(from, to) ==
    [type |-> "text", from |-> from, to |-> to, ufrom |-> 0, uto |-> 0]

MatchPiece(t, m) ==
    IF m.alt = "link"
    THEN LET q == FirstAt(t, m.start + 1, "]")
         IN  [type |-> "link", from |-> m.start + 1, to |-> q,
              ufrom |-> q + 2, uto |-> m.end - 1]
    ELSE IF m.alt = "bold"
    THEN [type |-> "bold", from |-> m.start + 2, to |-> m.end - 2,
          ufrom |-> 0, uto |-> 0]
    ELSE [type |-> "italic", from |-> m.start + 1, to |-> m.end - 1,
          ufrom |-> 0, uto |-> 0]

RECURSIVE Pieces(_, _, _)
Pieces(t, ms, pos) ==
    IF ms = <<>>
    THEN IF pos < Len(t) THEN <<PlainPiece(pos, Len(t))>> ELSE <<>>
    ELSE (IF Head(ms).start > pos THEN <<PlainPiece(pos, Head(ms).start)>> ELSE <<>>)
             \o <<MatchPiece(t, Head(ms))>> \o Pieces(t, Tail(ms), Head(ms).end)

\* the span sp is the given piece of t, character for character
SpanIsPiece(t, sp, piece) ==
    /\ sp.type = piece.type
    /\ sp.content = SubSeq(t, piece.from + 1, piece.to)
    /\ sp.url = SubSeq(t, piece.ufrom + 1, piece.uto)

\* C17 as stated: every markup span comes from a delimited match, and a
\* delimiter character that no match uses as a delimiter lies in a
\* plain-text span, never in the content or url of a markup span.
C17_UnmatchedStaysPlain ==
    pc = "done" =>
        /\ \A k \in 1..Len(FindIter(text, 0)) : Delimited(text, FindIter(text, 0)[k])
        /\ Len(MarkupTypes(parts)) = Len(FindIter(text, 0))
        /\ \A k \in 1..Len(parts) :
              parts[k].type # "text" =>
                  \A c \in 1..Len(parts[k].content \o parts[k].url) :
                      (parts[k].content \o parts[k].url)[c] \notin DelimiterChars

\* C17 amended: every markup span comes from a delimited match, one span a
\* match, so a delimiter without a closing counterpart opens no span; and a
\* delimiter character that no match uses as a delimiter is kept as literal
\* text in the span that covers its place: a plain-text span when it stands
\* outside every match, the content or url of the match's span when it stands
\* inside one.
C17_UnmatchedIsLiteral ==
    pc = "done" =>
        LET ms == FindIter(text, 0)
            pieces == Pieces(text, ms, 0)
        IN  /\ \A k \in 1..Len(ms) : Delimited(text, ms[k])
            /\ Len(MarkupTypes(parts)) = Len(ms)
            /\ text # <<>> =>
                  /\ Len(parts) = Len(pieces)
                  /\ \A k \in 1..Len(parts) : SpanIsPiece(text, parts[k], pieces[k])
            /\ \A p \in Unmatched(text, ms) :
                  \E k \in 1..Len(pieces) :
                      /\ \/ pieces[k].from <= p /\ p < pieces[k].to
                         \/ pieces[k].ufrom <= p /\ p < pieces[k].uto
                      /\ ~InsideMatch(ms, p) => pieces[k].type = "text"

\* _*[* : the lone _ stays in a plain-text span, the lone [ is the content of
\* the italic span
C17_Witness ==
    /\ pc = "done"
    /\ text = <<"_", "*", "[", "*">>
    /\ Unmatched(text, FindIter(text, 0)) = {0, 2}
    /\ parts = <<Span("text", <<"_">>), Span("italic", <<"[">>)>>

\* the object of the call after its header and its first n blocks
AfterBlocks(n) ==
    RenderAll(HeaderOn(NewMarkdownPDF(files, pdf.created), pdf.created, title),
              SubSeq(blocks, 1, n))

\* while the loop runs and when the call returns, the object holds the header
\* and then the first cursor blocks of parse_markdown(text), each rendered
\* once, in list order, by the renderer of its type
RenderedInOrder ==
    pc \in {"render", "done"} =>
        /\ blocks = ParseMarkdown(text)
        /\ cursor <= Len(blocks)
        /\ pdf = AfterBlocks(cursor)
        /\ Len(pdf.ops) >= 2
        /\ pdf.ops[1].text = title /\ pdf.ops[2].text = DateLine(pdf.created)

\* the block types that have a branch in the loop of generate_pdf
DispatchTypes ==
    {"h1", "h2", "table", "bullet", "numbered", "separator", "paragraph"}

\* C18: the header is written before any block; the blocks of
\* parse_markdown(text) are rendered one by one in list order, each once and
\* by the renderer of its type; the block the loop is at always has a branch;
\* and the call is never cut short, so that no parsed block is left
\* unrendered.
C18_HeaderThenEveryBlock ==
    /\ RenderedInOrder
    /\ (pc = "render" /\ cursor < Len(blocks))
           => blocks[cursor + 1].type \in DispatchTypes
    /\ pc # "raised"

\* the same on hosts where a Unicode font is found, and the order on every
\* host: whatever is rendered is rendered in order and once, no block type
\* lacks a branch, and with a Unicode font no call is cut short
C18_OrderAndBranches ==
    /\ RenderedInOrder
    /\ (pc = "render" /\ cursor < Len(blocks))
           => blocks[cursor + 1].type \in DispatchTypes
    /\ ~(pc = "raised" /\ pdf.font_name = "Unicode")

\* the loop has just left the renderer of a heading block, which did not raise
AfterHeading ==
    /\ pc = "render"
    /\ cursor >= 1
    /\ blocks[cursor].type \in {"h1", "h2"}

\* the units the renderer of block number cursor has drawn
DrawnByLast ==
    SubSeq(pdf.ops, Len(AfterBlocks(cursor - 1).ops) + 1, Len(pdf.ops))

HeadingSize(type) == IF type = "h1" THEN 16 ELSE 12

HeadingColor(type) == IF type = "h1" THEN COLORS["header1"] ELSE COLORS["header2"]

\* the heading text is drawn, all of it in the bold font, at 16 for level 1
\* and 12 for level 2, in the accent colour, which is not the body colour
HeadingDrawnBold ==
    LET ops == DrawnByLast
        type == blocks[cursor].type
    IN  /\ ops # <<>>
        /\ \A k \in 1..Len(ops) :
              /\ ops[k].kind = "text"
              /\ ops[k].style = "B"
              /\ ops[k].size = HeadingSize(type)
              /\ ops[k].text_color = HeadingColor(type)
        /\ Join([k \in 1..Len(ops) |-> ops[k].text], <<>>)
               = Strip(blocks[cursor].content)
        /\ HeadingSize("h1") > HeadingSize("h2")
        /\ HeadingColor(type) # COLORS["text"]

\* C19: a heading is written in the bold font, larger for level 1 than for
\* level 2, in the accent colour, and when its renderer returns the active
\* font is the body font (regular, 11) and the text colour the body colour.
C19_HeadingRestoresBody ==
    AfterHeading =>
        /\ HeadingDrawnBold
        /\ pdf.text_color = COLORS["text"]
        /\ pdf.style = "" /\ pdf.size = 11

\* what the renderers do: the text colour is the body colour again, the font
\* stays the bold heading font
C19_HeadingKeepsBoldFont ==
    AfterHeading =>
        /\ HeadingDrawnBold
        /\ pdf.text_color = COLORS["text"]
        /\ pdf.style = "B" /\ pdf.size = HeadingSize(blocks[cursor].type)

\* the heading font left active is never seen in the document: every text
\* unit drawn by a block that is not a heading is drawn at size 10 or 11
HeadingFontNotSeen ==
    (pc = "render" /\ cursor >= 1 /\ blocks[cursor].type \notin {"h1", "h2"})
        => \A k \in 1..Len(DrawnByLast) :
              DrawnByLast[k].kind \in {"text", "cell"}
                  => DrawnByLast[k].size \in {10, 11}

\* the block types whose renderer hands a text to _render_inline_text
InlineTypes == {"paragraph", "bullet", "numbered"}

\* the text that the renderer of block b hands to _render_inline_text
\* (lines 152, 161 and 168)
InlineSource(b) ==
    IF b.type = "bullet" THEN <<BulletGlyph, " ">> \o Strip(b.content)
    ELSE IF b.type = "numbered" THEN b.number \o <<".", " ">> \o Strip(b.content)
    ELSE Strip(b.content)

StyleOf(type) == IF type = "bold" THEN "B" ELSE IF type = "italic" THEN "I" ELSE ""

\* one written character with the font, the colour and the link it is written with
Glyph(c, style, size, color, link) ==
    [c |-> c, style |-> style, size |-> size, text_color |-> color, link |-> link]

\* the characters of the spans as the claim has them written: in order, each
\* in the style of its span, a link in the link colour with its url, every
\* other span in the body colour with no link
RECURSIVE SpanGlyphs(_)
SpanGlyphs(ps) ==
    IF ps = <<>> THEN <<>>
    ELSE LET part == Head(ps)
         IN  [k \in 1..Len(part.content) |->
                 Glyph(part.content[k], StyleOf(part.type), 11,
                       IF part.type = "link" THEN COLORS["link"] ELSE COLORS["text"],
                       IF part.type = "link" THEN part.url ELSE <<>>)]
             \o SpanGlyphs(Tail(ps))

\* the characters of the drawn units, in order
RECURSIVE OpGlyphs(_)
OpGlyphs(ops) ==
    IF ops = <<>> THEN <<>>
    ELSE LET op == Head(ops)
         IN  [k \in 1..Len(op.text) |->
                 Glyph(op.text[k], op.style, op.size, op.text_color, op.link)]
             \o OpGlyphs(Tail(ops))

\* the spans of the last block are written as the claim says
SpansWrittenInStyle ==
    /\ OpGlyphs(DrawnByLast) = SpanGlyphs(ParseInline(InlineSource(blocks[cursor])))
    /\ COLORS["link"] # COLORS["text"]

\* C20: _render_inline_text writes the spans in order, a text span in the
\* regular font, a bold span in bold, an italic span in italic; a link span is
\* written in the link colour with its url as link, and no other span is
\* written in the link colour.  The loop has been at the block, whether its
\* renderer returned or raised.
C20_SpansWrittenInStyle ==
    (pc \in {"render", "raised"} /\ cursor >= 1
        /\ blocks[cursor].type \in InlineTypes) => SpansWrittenInStyle

\* the same whenever the renderer has returned
C20_SpansWrittenOnReturn ==
    (pc = "render" /\ cursor >= 1 /\ blocks[cursor].type \in InlineTypes)
        => SpansWrittenInStyle

\* the loop has been at a table block, whether its renderer returned or raised
AfterTable ==
    /\ pc \in {"render", "raised"}
    /\ cursor >= 1
    /\ blocks[cursor].type = "table"

\* what of a drawn unit the claim on tables speaks of
CellShape(txt, w, h, fill, style, size) ==
    [text |-> txt, w |-> w, h |-> h, fill |-> fill, style |-> style, size |-> size]

\* the cells of the rows from row r on as the claim has them drawn: one width,
\* one height, the first row filled and bold, the later rows unfilled and regular
RECURSIVE ClaimedCells(_, _, _)
ClaimedCells(rows, r, w) ==
    IF r > Len(rows) THEN <<>>
    ELSE [k \in 1..Len(rows[r]) |->
             CellShape(Strip(rows[r][k]), w, 7, r = 1,
                       IF r = 1 THEN "B" ELSE "", 10)]
         \o ClaimedCells(rows, r + 1, w)

DrawnCells ==
    [k \in 1..Len(DrawnByLast) |->
        CellShape(DrawnByLast[k].text, DrawnByLast[k].w, DrawnByLast[k].h,
                  DrawnByLast[k].fill, DrawnByLast[k].style, DrawnByLast[k].size)]

TableDrawnAsClaimed ==
    LET rows == blocks[cursor].rows
    IN  /\ \A k \in 1..Len(DrawnByLast) : DrawnByLast[k].kind = "cell"
        /\ DrawnCells = ClaimedCells(rows, 1, <<PageWidth, Len(rows[1])>>)
        /\ pdf.fill_color = COLORS["table_header"]

\* C21: render_table draws every cell of every row, each with the width of the
\* page divided by the cell count of the first row and with height 7; the
\* cells of the first row, and no others, are filled with the header shade and
\* drawn in bold, the cells of the later rows are unfilled and regular.
C21_TableCellsUniform == AfterTable => TableDrawnAsClaimed

\* the same whenever render_table has returned
C21_TableCellsOnReturn ==
    (AfterTable /\ pc = "render") => TableDrawnAsClaimed

\* the cells of a trimmed row line as written: the pieces between the pipes,
\* without the empty piece before a leading pipe and after a trailing pipe
WrittenCells(row) ==
    LET pieces == Split(row, "|")
        from == IF pieces[1] = <<>> THEN 2 ELSE 1
        rest == SubSeq(pieces, from, Len(pieces))
    IN  IF rest # <<>> /\ rest[Len(rest)] = <<>>
        THEN SubSeq(rest, 1, Len(rest) - 1) ELSE rest

\* the rows that keep every cell of the captured lines, alignment rows aside
RECURSIVE PreservedRows(_)
PreservedRows(lines) ==
    IF lines = <<>> THEN <<>>
    ELSE LET row == Strip(Head(lines))
         IN  IF WholeRowSeparator(row) \/ WrittenCells(row) = <<>>
             THEN PreservedRows(Tail(lines))
             ELSE <<StripAll(WrittenCells(row))>> \o PreservedRows(Tail(lines))

\* the trimmed row is written between a leading and a trailing pipe
Enclosed(row) == Len(row) >= 2 /\ row[1] = "|" /\ row[Len(row)] = "|"

\* the text of a trimmed line under its rule: the line without its marker
LineBody(s) ==
    IF RuleOf(s) = "h1"
    THEN (IF StartsWith(s, <<"#", "#", " ">>) THEN From(s, 3) ELSE From(s, 2))
    ELSE IF RuleOf(s) = "h2" THEN From(s, 4)
    ELSE IF RuleOf(s) = "bullet" THEN From(s, 2)
    ELSE IF RuleOf(s) = "numbered" THEN LStrip(From(s, DigitRun(s) + 1))
    ELSE s

\* the lines of an iteration keep their text in the blocks it appends: a
\* table has a row with every written cell of every captured line that is no
\* alignment row; a separator line gives its block; every other line gives
\* its text, a paragraph the texts of its lines joined
StepPreserves(taken, new) ==
    LET s == Strip(taken[1])
    IN  IF s = <<>> THEN new = <<>>
        ELSE IF RuleOf(s) = "table"
        THEN new = IF PreservedRows(taken) = <<>> THEN <<>>
                   ELSE <<TableBlock(PreservedRows(taken))>>
        ELSE IF RuleOf(s) = "separator" THEN new = <<Block("separator", <<>>)>>
        ELSE /\ Len(new) = 1
             /\ new[1].content =
                   IF RuleOf(s) = "paragraph"
                   THEN Join([k \in 1..Len(taken) |-> Strip(taken[k])], <<" ">>)
                   ELSE LineBody(s)
             /\ RuleOf(s) # "paragraph" => Len(taken) = 1

\* C23: every iteration of parse_markdown keeps the text of the non-blank
\* lines it takes, alignment rows aside, in the blocks it appends, each line
\* once; a line taken into a table, enclosed in pipes or not, keeps every cell.
C23_ContentPreserved ==
    [][ParseStep =>
          LET lines == SplitLines(text)
          IN  StepPreserves(SubSeq(lines, i + 1, i'),
                            SubSeq(blocks', Len(blocks) + 1, Len(blocks')))
      ]_vars

\* the same for the iterations whose table lines are all enclosed in pipes
\* and on which the prefix test of line 301 agrees with the whole-row test
C23_PreservedWhenEnclosed ==
    [][(/\ ParseStep
        /\ \A k \in (i + 1)..i' :
              LET row == Strip(SplitLines(text)[k])
              IN  RuleOf(Strip(SplitLines(text)[i + 1])) = "table"
                     => /\ Enclosed(row)
                        /\ TableSepMatch(row) <=> WholeRowSeparator(row)) =>
          LET lines == SplitLines(text)
          IN  StepPreserves(SubSeq(lines, i + 1, i'),
                            SubSeq(blocks', Len(blocks) + 1, Len(blocks')))
      ]_vars

\* the text units the renderer of block number cursor has drawn are in the
\* body colour, those of a link in the link colour
DrawnInBodyColor ==
    \A k \in 1..Len(DrawnByLast) :
        DrawnByLast[k].kind \in {"text", "cell"} =>
            DrawnByLast[k].text_color =
                IF DrawnByLast[k].link # <<>> THEN COLORS["link"] ELSE COLORS["text"]

\* the loop has been at a paragraph, list item or table block
AfterBodyBlock ==
    /\ pc \in {"render", "raised"}
    /\ cursor >= 1
    /\ blocks[cursor].type \in InlineTypes \cup {"table"}

\* a block before block number cursor has set the text colour: every renderer
\* but render_table and render_separator does
ColorSetBefore ==
    \E k \in 1..(cursor - 1) : blocks[k].type \notin {"table", "separator"}

\* C24: whenever the text of a paragraph, a list item or a table cell is drawn,
\* the text colour is the body colour, or the link colour for a link span,
\* whatever blocks came before, a table that is the first block or follows
\* only separators included.
C24_BodyTextColor == AfterBodyBlock => DrawnInBodyColor

\* the same for paragraphs and list items, and for a table that follows a
\* block that has set the text colour
C24_BodyTextColorOnceSet ==
    (AfterBodyBlock /\ (blocks[cursor].type = "table" => ColorSetBefore))
        => DrawnInBodyColor

\* a table before which no block has set the text colour is drawn in the gray
\* of the timestamp line
C24_FirstTableGray ==
    (AfterBodyBlock /\ blocks[cursor].type = "table" /\ ~ColorSetBefore)
        => \A k \in 1..Len(DrawnByLast) : DrawnByLast[k].text_color = COLORS["gray"]

(***************************************************************************)
(* SpecBlocksLive: parse_markdown on every text of up to MaxLiveLines lines *)
(* drawn from LiveLines, short lines for the ways an iteration moves the     *)
(* index (blank line, paragraph, table row, alignment row, captured line),  *)
(* with the loop running on: the interpreter takes the next iteration, or   *)
(* the return, whenever there is one to take.                               *)
(***************************************************************************)
MaxLiveLines == 2

LiveLines ==
    {<<>>,
     <<" ">>,
     <<"a">>,
     <<"|", "|">>,
     <<"|", "-", "|">>,
     <<"a", "|">>}

LiveTexts(maxLines) ==
    UNION {{Join(ls, <<NL>>) : ls \in [1..n -> LiveLines]} : n \in 0..maxLines}

InitLive == InitParse(LiveTexts(MaxLiveLines))

SpecBlocksLive == InitLive /\ [][NextParse]_vars /\ WF_vars(NextParse)

\* C26: parse_markdown terminates on every input: every iteration moves the
\* line index on by at least one, the table iteration included, the index
\* never passes the number of lines, and the loop comes to its return.
C26_ParseTerminates ==
    /\ [](i <= Len(SplitLines(text)))
    /\ [][ParseStep => i' >= i + 1]_vars
    /\ <>(pc = "done" /\ i = Len(SplitLines(text)))

\* a table iteration has taken the line that opened it and the line after it
C26_Witness ==
    /\ pc = "done"
    /\ SplitLines(text) = <<<<"|", "|">>, <<"a", "|">>>>
    /\ i = 2
    /\ blocks = <<TableBlock(<<<<<<>>>>>>)>>

\* a table block with a row, and a cell in every row
WellFormedTable(b) ==
    /\ b.rows # <<>>
    /\ \A r \in 1..Len(b.rows) : b.rows[r] # <<>>

\* C27: every table block of parse_markdown has at least one row and every
\* row has at least one cell, so that render_table, given a block of the
\* parser, has a column count that is not zero and does not raise on a host
\* with a Unicode font.
C27_TablesHaveCells ==
    /\ \A k \in 1..Len(blocks) : blocks[k].type = "table" => WellFormedTable(blocks[k])
    /\ AtBlock("table") => Len(blocks[cursor + 1].rows[1]) # 0
    /\ ~(pc = "raised" /\ pdf.font_name = "Unicode")

\* the table of a text whose first line is a lone pipe has been rendered
C27_Witness ==
    /\ pc = "done"
    /\ SplitLines(text) = <<<<"|">>, <<"|", "a", "|">>>>
    /\ blocks = <<TableBlock(<<<<<<"a">>>>>>)>>
    /\ pdf.font_name = "Unicode"
    /\ \E k \in 1..Len(pdf.ops) : pdf.ops[k].kind = "cell" /\ pdf.ops[k].w = <<PageWidth, 1>>

\* the same for the parser alone
C27_ParsedTablesHaveCells ==
    \A k \in 1..Len(blocks) : blocks[k].type = "table" => WellFormedTable(blocks[k])

\* the renderer of a paragraph or list item block has returned
AfterInlineBlock ==
    /\ pc = "render"
    /\ cursor >= 1
    /\ blocks[cursor].type \in InlineTypes

\* C29: when render_paragraph, render_bullet or render_numbered_item returns,
\* the active font is the regular font at size 11 and the text colour is the
\* body colour, whatever spans the block has: a bold, an italic and a link
\* span each set back what they changed, so that the next block starts from
\* the same font and colour as after a block without markup.
C29_InlineRestoresBody ==
    AfterInlineBlock =>
        /\ pdf.style = ""
        /\ pdf.size = 11
        /\ pdf.text_color = COLORS["text"]

\* a paragraph that ends in an italic span, and one that is a link, have been
\* rendered and the font and colour are the body's
C29_Witness ==
    /\ AfterInlineBlock
    /\ blocks[cursor].type = "paragraph"
    /\ LET ps == ParseInline(Strip(blocks[cursor].content))
       IN  ps[Len(ps)].type \in {"italic", "link"}
    /\ \E k \in 1..Len(DrawnByLast) :
          DrawnByLast[k].style = "I" \/ DrawnByLast[k].text_color = COLORS["link"]
    /\ pdf.style = "" /\ pdf.text_color = COLORS["text"]

(***************************************************************************)
(* SpecShort: parse_markdown on every text of up to MaxShortLen characters *)
(* over ShortAlphabet, the characters of the heading, bullet and numbered   *)
(* markers, the blank, the line break and one letter.                      *)
(***************************************************************************)
MaxShortLen == 5

ShortAlphabet == {"#", " ", "-", "1", ".", "a", NL}

InitShort == InitParse(StringsUpTo(ShortAlphabet, MaxShortLen))

SpecShort == InitShort /\ [][NextParse]_vars

\* C30: every heading, bullet, numbered-item and paragraph block that
\* parse_markdown has appended has a content that is not empty, whatever the
\* input; a numbered item also has a number that is not empty.
C30_NoEmptyContent ==
    \A k \in 1..Len(blocks) :
        /\ blocks[k].type \in {"h1", "h2", "bullet", "numbered", "paragraph"}
              => blocks[k].content # <<>>
        /\ blocks[k].type = "numbered" => blocks[k].number # <<>>

\* a bullet marker and a heading marker, each followed by a blank only, are
\* paragraphs of the marker
C30_Witness ==
    /\ pc = "done"
    /\ text = <<"-", " ", NL, "#", " ">>
    /\ blocks = <<Block("paragraph", <<"-">>), Block("paragraph", <<"#">>)>>

(***************************************************************************)
(* The request handling of src/bot_multi.py.  The dispatcher runs every    *)
(* update in a task of its own on one event loop: a handler runs without   *)
(* interruption from one await to the next, and between two awaits of one  *)
(* handler the steps of other handlers may run.  A handle_query call is     *)
(* named by the id of its status message.  The database is taken to exist  *)
(* and the query to be non-empty (the early returns of lines 572 and        *)
(* 594-606 come before anything a claim speaks of).                         *)
(***************************************************************************)
WHITELIST_USER_IDS == {435878873, 354910522}

DAILY_LIMIT == 5

\* usage_storage.get / dict update with a new key
Put(map, key, value) == (key :> value) @@ map

\* dict.pop(key, None)
Pop(map, key) == [k \in (DOMAIN map) \ {key} |-> map[k]]

\* lines 59-66 and 86-93: the record of the user, made if missing and reset
\* on a new day
TodaysUsage(storage, user_id, day) ==
    LET s1 == IF user_id \in DOMAIN storage THEN storage
              ELSE Put(storage, user_id, [date |-> day, count |-> 0])
    IN  IF s1[user_id].date # day
        THEN [s1 EXCEPT ![user_id] = [date |-> day, count |-> 0]]
        ELSE s1

\* check_rate_limit (lines 45-76): the answer and the storage it leaves
check_rate_limit(storage, user_id, day) ==
    IF user_id \in WHITELIST_USER_IDS
    THEN [allowed |-> TRUE, remaining |-> -1, storage |-> storage]
    ELSE LET s2 == TodaysUsage(storage, user_id, day)
             remaining == DAILY_LIMIT - s2[user_id].count
         IN  IF remaining <= 0
             THEN [allowed |-> FALSE, remaining |-> 0, storage |-> s2]
             ELSE [allowed |-> TRUE, remaining |-> remaining, storage |-> s2]

\* increment_usage (lines 79-96)
increment_usage(storage, user_id, day) ==
    IF user_id \in WHITELIST_USER_IDS THEN storage
    ELSE LET s2 == TodaysUsage(storage, user_id, day)
         IN  [s2 EXCEPT ![user_id].count = @ + 1]

\* the title of line 674, f"Звіт: {chat_name}"
ReportTitle == <<Cyrillic, Cyrillic, Cyrillic, Cyrillic, ":", " ", "a">>

\* the report of ask_claude_api as handed to generate_pdf
Report == <<"#", " ", "a">>

\* generate_pdf(text, title) at time t on the host with the files fs raises
GeneratePdfRaises(fs, t, txt, ttl) ==
    RenderAll(HeaderWritten(fs, t, ttl), ParseMarkdown(txt)).raised

\* no handle_query call with this status message id yet
\* what the user has been sent at the end of a request
LastMessage(r) ==
    CASE req[r].pc = "rejected" -> "limit"
      [] req[r].pc = "cancelled" -> "cancelled"
      [] req[r].pc \in {"api_error", "send_error"} -> "error"
      [] req[r].pc = "delivered" -> "report"
      [] OTHER -> "status"

NoRequest ==
    [pc |-> "none", user |-> 0, incs |-> 0, marked |-> FALSE,
     overlapped |-> FALSE]

MaxRequests == 2

Reqs == 1..MaxRequests

\* a whitelisted user and a user under the limit
BotUsers == {435878873, 1000}

\* the call has passed the limit check and has not yet counted itself
InFlight(r) == req[r].pc \in {"checked", "api"}

\* handle_query up to the limit check (lines 568-587): a message of a user
\* arrives; a request that is not allowed ends with the limit message
Receive(r) ==
    /\ req[r].pc = "none"
    /\ \A r2 \in Reqs : r2 < r => req[r2].pc # "none"
    /\ \E user \in BotUsers :
          LET c == check_rate_limit(usage_storage, user, today)
          IN  /\ usage_storage' = c.storage
              /\ req' = [req EXCEPT ![r] =
                    [pc |-> IF c.allowed THEN "checked" ELSE "rejected",
                     user |-> user, incs |-> 0, marked |-> FALSE,
                     overlapped |-> \E r2 \in Reqs \ {r} :
                                        req[r2].user = user /\ InFlight(r2)]]
    /\ UNCHANGED <<today, active_requests, answered>>
    /\ UNCHANGED <<pvars, gvars>>

\* lines 589-647 and ask_claude_api up to its first await (lines 386-412): the
\* status message with the cancel button is sent and the request registered
Register(r) ==
    /\ req[r].pc = "checked"
    /\ active_requests' = Put(active_requests, r, [cancelled |-> FALSE])
    /\ req' = [req EXCEPT ![r].pc = "api"]
    /\ UNCHANGED <<today, usage_storage, answered>>
    /\ UNCHANGED <<pvars, gvars>>

\* an API call returns with stop_reason "tool_use" (lines 428-478): the flag
\* is tested at the top of the loop; if it is set CancelledError leaves
\* ask_claude_api through its finally (lines 484-486) and handle_query writes
\* the cancelled message (lines 692-694), else the tools run and the next
\* call is awaited, which leaves nothing behind but a longer conversation
ApiToolUse(r) ==
    /\ req[r].pc = "api"
    /\ IF active_requests[r].cancelled
       THEN /\ active_requests' = Pop(active_requests, r)
            /\ req' = [req EXCEPT ![r].pc = "cancelled"]
       ELSE UNCHANGED <<active_requests, req>>
    /\ UNCHANGED <<today, usage_storage, answered>>
    /\ UNCHANGED <<pvars, gvars>>

\* an API call returns with the final answer (lines 480-486, 651-654):
\* ask_claude_api returns the text through its finally and handle_query, with
\* no await in between, counts the request
ApiAnswer(r) ==
    /\ req[r].pc = "api"
    /\ active_requests' = Pop(active_requests, r)
    /\ usage_storage' = increment_usage(usage_storage, req[r].user, today)
    /\ req' = [req EXCEPT ![r].pc = "deliver",
                          ![r].incs = IF usage_storage' # usage_storage
                                      THEN @ + 1 ELSE @]
    /\ UNCHANGED <<today, answered>>
    /\ UNCHANGED <<pvars, gvars>>

\* an API call raises anthropic.APIError (lines 696-698)
ApiError(r) ==
    /\ req[r].pc = "api"
    /\ active_requests' = Pop(active_requests, r)
    /\ req' = [req EXCEPT ![r].pc = "api_error"]
    /\ UNCHANGED <<today, usage_storage, answered>>
    /\ UNCHANGED <<pvars, gvars>>

\* the answer goes out (lines 658-690): as text by edit_text, or, for the
\* dossier skill and for a report of more than 2500 characters, as a PDF by
\* generate_pdf and answer_document; an exception of generate_pdf or of the
\* Telegram call ends in the error message of lines 700-702
Deliver(r) ==
    /\ req[r].pc = "deliver"
    /\ \E as_pdf \in BOOLEAN, sent_ok \in BOOLEAN :
          LET ok == /\ sent_ok
                    /\ ~(as_pdf /\ GeneratePdfRaises(files, now, Report, ReportTitle))
          IN  /\ req' = [req EXCEPT
                    ![r].pc = IF ok THEN "delivered" ELSE "send_error"]
              /\ answered' =
                    IF ok
                    THEN LET user == req[r].user
                         IN  Put(answered, user,
                                 1 + (IF user \in DOMAIN answered
                                      THEN answered[user] ELSE 0))
                    ELSE answered
    /\ UNCHANGED <<today, usage_storage, active_requests>>
    /\ UNCHANGED <<pvars, gvars>>

\* on_cancel_request (lines 548-561): the button of the status message is
\* pressed; a request that is registered is marked, and for any other the
\* user is told that it is over
Cancel(r) ==
    /\ req[r].pc \notin {"none", "rejected", "checked"}
    /\ IF r \in DOMAIN active_requests
       THEN /\ active_requests' = [active_requests EXCEPT ![r].cancelled = TRUE]
            /\ req' = [req EXCEPT ![r].marked = TRUE]
       ELSE UNCHANGED <<active_requests, req>>
    /\ UNCHANGED <<today, usage_storage, answered>>
    /\ UNCHANGED <<pvars, gvars>>

NextBot ==
    \/ \E r \in Reqs : Receive(r)
    \/ \E r \in Reqs : Register(r)
    \/ \E r \in Reqs : ApiToolUse(r)
    \/ \E r \in Reqs : ApiAnswer(r)
    \/ \E r \in Reqs : ApiError(r)
    \/ \E r \in Reqs : Deliver(r)
    \/ \E r \in Reqs : Cancel(r)

(***************************************************************************)
(* SpecBot: up to MaxRequests messages handled concurrently within one     *)
(* day, on a host with or without font files.  The run starts with the     *)
(* usage the user's earlier requests have left: none, the full count of    *)
(* the day before, or one short of DAILY_LIMIT requests answered and       *)
(* counted today.  answered[u] is the number of requests of the user u     *)
(* answered today.                                                         *)
(***************************************************************************)
StoredUsage ==
    {[date |-> -1, count |-> DAILY_LIMIT], [date |-> 0, count |-> DAILY_LIMIT - 1]}

BotHosts == {{}, {"dejavu/DejaVuSans.ttf"}}

InitBot ==
    /\ text = <<>>
    /\ i = 0
    /\ blocks = <<>>
    /\ parts = <<>>
    /\ pc = "bot"
    /\ title = <<>>
    /\ files \in BotHosts
    /\ now = 0
    /\ pdf = NoPdf
    /\ cursor = 0
    /\ calls = 0
    /\ last = NoCall
    /\ COLORS = ImportedColors
    /\ FONT_PATHS = ImportedFontPaths
    /\ today = 0
    /\ active_requests = <<>>
    /\ req = [r \in Reqs |-> NoRequest]
    /\ \/ /\ usage_storage = <<>>
          /\ answered = <<>>
       \/ \E u \in StoredUsage :
             /\ usage_storage = Put(<<>>, 1000, u)
             /\ answered = IF u.date = today THEN Put(<<>>, 1000, u.count)
                           ELSE <<>>

SpecBot == InitBot /\ [][NextBot]_vars

\* handle_query has ended for the request
Finished(r) ==
    req[r].pc \in {"rejected", "cancelled", "api_error", "send_error", "delivered"}

\* requests of users who are under the limit
Limited == {r \in Reqs : req[r].pc # "none" /\ req[r].user \notin WHITELIST_USER_IDS}

\* C22: the usage counter of a non-whitelisted user is incremented exactly
\* once for each request that ended with its answer delivered, and not at all
\* for a request that was rejected, cancelled or ended with an error message.
\* Violated: the counter is incremented as soon as ask_claude_api returns
\* (line 654), and a failure of the delivery after it (generate_pdf raising on
\* a host without fonts, an exception of the Telegram call) ends the request
\* with the error message of line 702 and the increment in place.
C22_CountsDeliveredOnly ==
    \A r \in Limited :
        Finished(r) => req[r].incs = (IF req[r].pc = "delivered" THEN 1 ELSE 0)

\* C22, the part that holds: the counter is incremented exactly once for each
\* request whose ask_claude_api call returned an answer, delivered or not, and
\* not for a request rejected, cancelled or ended by an API error.
C22_CountsReturnedAnswers ==
    \A r \in Limited :
        req[r].incs = (IF req[r].pc \in {"deliver", "delivered", "send_error"}
                       THEN 1 ELSE 0)

\* a counted answer that never reached the user
C22_CountedButNotDelivered ==
    \E r \in Limited : req[r].pc = "send_error" /\ req[r].incs = 1

\* C25: for a non-whitelisted user the number of requests answered within one
\* day never exceeds DAILY_LIMIT, also when several messages of the user are
\* handled concurrently.  Violated: the check of line 578 and the increment
\* of line 654 are separated by the awaited API call, so two messages that
\* arrive while the counter stands at DAILY_LIMIT - 1 both pass the check and
\* both are answered.
C25_DailyLimitKept ==
    \A u \in DOMAIN answered :
        u \notin WHITELIST_USER_IDS => answered[u] <= DAILY_LIMIT

\* C25, the part that holds: the limit is kept as long as no message of the
\* user arrives while an earlier request of the same user is between its
\* check and its increment.
C25_LimitKeptWithoutOverlap ==
    (\A r \in Reqs : ~req[r].overlapped) => C25_DailyLimitKept

\* C25, the check itself: a request is admitted only while the counter of its
\* user is below DAILY_LIMIT.
C25_AdmittedBelowLimit ==
    [][\A r \in Reqs :
          (req[r].pc = "none" /\ req'[r].pc = "checked"
              /\ req'[r].user \notin WHITELIST_USER_IDS)
          => usage_storage'[req'[r].user].count < DAILY_LIMIT]_vars

\* the sixth answer of the day
C25_OverLimit ==
    /\ 1000 \in DOMAIN answered
    /\ answered[1000] = DAILY_LIMIT + 1
    /\ \A r \in Reqs : req[r].pc = "delivered" /\ req[r].user = 1000

\* C28: a request that on_cancel_request marked as cancelled before
\* ask_claude_api returned its answer ends with the cancelled message, and its
\* report is never delivered.  Violated: the flag is read only at the top of
\* the tool_use loop (line 436), so a mark set while the API call that brings
\* the final answer is awaited is never read and the report goes out; and a
\* marked request whose API call raises ends with the API error message.
C28_CancelWins ==
    \A r \in Reqs :
        req[r].marked =>
            /\ req[r].pc # "delivered"
            /\ Finished(r) => LastMessage(r) = "cancelled"

\* C28, the part that holds: a marked request whose awaited API call comes
\* back with stop_reason "tool_use" ends with the cancelled message and runs
\* no further tool; and the cancelled message is sent to marked requests only.
C28_CancelSeenAtToolUse ==
    /\ [][\A r \in Reqs :
            (req[r].pc = "api" /\ req[r].marked /\ ApiToolUse(r))
            => (req'[r].pc = "cancelled" /\ r \notin DOMAIN active_requests')]_vars
    /\ [](\A r \in Reqs : req[r].pc = "cancelled" => req[r].marked)

\* a report delivered to a user who had cancelled the request
C28_DeliveredAfterCancel ==
    \E r \in Reqs : req[r].marked /\ req[r].pc = "delivered"

====
